---- MODULE Spec2Model ----
(***************************************************************************)
(* A model of fiskalhr: the tamper code (ZKI) payload, the document        *)
(* variants and their serialization, the enveloped-signature plugin, the   *)
(* protocol client and the fault decoder.                                  *)
(*                                                                         *)
(* Conventions.  An optional Python value is a sequence of length at most  *)
(* one: None is <<>> and a present value v is <<v>>.  Text that the code   *)
(* only concatenates or compares is a TLA+ string; text that the code      *)
(* parses is a sequence of one-character strings.  A Decimal quantized to  *)
(* two places is its sign and its coefficient in hundredths, as as_tuple() *)
(* gives them, so that a negative zero keeps its sign.                     *)
(***************************************************************************)
EXTENDS Integers, Sequences, FiniteSets, TLC

VARIABLES
    zkiArgs,     \* SpecZki: the two argument tuples handed to ZKI.calculate
    zkiSigned,   \* SpecZki: per call, the payloads its signer has received
    zkiResult,   \* SpecZki: per call, the ZKI returned (None before the call)
    variant,     \* SpecDoc: the class of the document
    doc,         \* SpecDoc: the document's backing attributes
    last,        \* SpecDoc: the latest operation on the document, its outcome
    client,      \* SpecClient: the FiskalClient call in progress
    fault,       \* SpecFault: the Greska entries of a fault response
    decoded,     \* SpecFault: the details decoded from it (None before)
    rendered,    \* SpecFault: their string forms (None before)
    input,       \* SpecOib, SpecNumber, SpecTax: the constructor's argument
    output,      \* SpecOib, SpecNumber, SpecTax: what the constructor did
    xml,         \* SpecSig: the SOAP envelope
    verified,    \* SpecSig: the outcome of the latest verification
    crypto,      \* SpecThreads: the attributes of the Signer and the Verifier
    threads      \* SpecThreads: per thread, its call on them and how far it is

zkiVars == <<zkiArgs, zkiSigned, zkiResult>>

docVars == <<variant, doc, last>>

clientVars == <<client>>

faultVars == <<fault, decoded, rendered>>

pureVars == <<input, output>>

sigVars == <<xml, verified>>

threadVars == <<crypto, threads>>

vars ==
    <<zkiArgs, zkiSigned, zkiResult, variant, doc, last, client, fault,
      decoded, rendered, input, output, xml, verified, crypto, threads>>

\* What the actions of one specification leave alone
zkiOthers ==
    <<docVars, clientVars, faultVars, pureVars, sigVars, threadVars>>
docOthers ==
    <<zkiVars, clientVars, faultVars, pureVars, sigVars, threadVars>>
clientOthers ==
    <<zkiVars, docVars, faultVars, pureVars, sigVars, threadVars>>
faultOthers ==
    <<zkiVars, docVars, clientVars, pureVars, sigVars, threadVars>>
pureOthers ==
    <<zkiVars, docVars, clientVars, faultVars, sigVars, threadVars>>
sigOthers ==
    <<zkiVars, docVars, clientVars, faultVars, pureVars, threadVars>>
threadOthers ==
    <<zkiVars, docVars, clientVars, faultVars, pureVars, sigVars>>

----------------------------------------------------------------------------
(* Python values *)

None == <<>>
Some(v) == <<v>>
IsNone(o) == o = <<>>
Val(o) == o[1]

PureIdle ==
    /\ input = None
    /\ output = None

SigIdle ==
    /\ xml = None
    /\ verified = None

ThreadIdle ==
    /\ crypto = None
    /\ threads = None

----------------------------------------------------------------------------
(* Text helpers: str(int), zero-padded strftime fields, str(Decimal) *)

DigitStr == <<"0", "1", "2", "3", "4", "5", "6", "7", "8", "9">>

RECURSIVE IntToStr(_)
IntToStr(n) ==
    IF n < 0 THEN "-" \o IntToStr(-n)
    ELSE IF n < 10 THEN DigitStr[n + 1]
    ELSE IntToStr(n \div 10) \o DigitStr[(n % 10) + 1]

\* str(n) of a natural number, character by character
RECURSIVE IntToChars(_)
IntToChars(n) ==
    IF n < 10 THEN <<DigitStr[n + 1]>>
    ELSE Append(IntToChars(n \div 10), DigitStr[(n % 10) + 1])

Pad2(n) == IF n < 10 THEN "0" \o IntToStr(n) ELSE IntToStr(n)

Abs(n) == IF n < 0 THEN -n ELSE n

\* A Decimal with exponent -2: sign is 1 for a negative number and for a
\* negative zero, coeff is the coefficient in hundredths
Decimal2(sign, coeff) == [sign |-> sign, coeff |-> coeff]

\* What a Decimal is worth in hundredths: the number that ==, int() and the
\* arithmetic operators see
Hundredths(x) == IF x.sign = 1 THEN -x.coeff ELSE x.coeff

\* str() of a Decimal with exponent -2
DecimalStr(x) ==
    (IF x.sign = 1 THEN "-" ELSE "")
        \o IntToStr(x.coeff \div 100) \o "." \o Pad2(x.coeff % 100)

\* Concatenation of a sequence of one-character strings
RECURSIVE Join(_)
Join(cs) == IF cs = <<>> THEN "" ELSE Head(cs) \o Join(Tail(cs))

----------------------------------------------------------------------------
(* datetime and its two strftime formats *)

datetime(y, mo, d, h, mi, sec) ==
    [year |-> y, month |-> mo, day |-> d, hour |-> h, minute |-> mi,
     second |-> sec]

DateDMY(dt) ==
    Pad2(dt.day) \o "." \o Pad2(dt.month) \o "." \o IntToStr(dt.year)

TimeHMS(dt) ==
    Pad2(dt.hour) \o ":" \o Pad2(dt.minute) \o ":" \o Pad2(dt.second)

\* The timestamp with the wire format's T in the payload
strftime_zki_T(dt) == DateDMY(dt) \o "T" \o TimeHMS(dt)

\* dt.strftime("%d.%m.%Y %H:%M:%S"), years of four digits
strftime_zki(dt) == DateDMY(dt) \o " " \o TimeHMS(dt)

\* A wire timestamp taken an hour after the instant it is given
strftime_ws_shifted(dt) ==
    DateDMY(dt) \o "T" \o TimeHMS([dt EXCEPT !.hour = (@ + 1) % 24])

\* dt.strftime("%d.%m.%YT%H:%M:%S"), years of four digits
strftime_ws(dt) == DateDMY(dt) \o "T" \o TimeHMS(dt)

----------------------------------------------------------------------------
(* InvoiceNumber *)

DigitChars == {"0", "1", "2", "3", "4", "5", "6", "7", "8", "9"}

LetterChars ==
    {"a", "b", "c", "d", "e", "f", "g", "h", "i", "j", "k", "l", "m",
     "n", "o", "p", "q", "r", "s", "t", "u", "v", "w", "x", "y", "z",
     "A", "B", "C", "D", "E", "F", "G", "H", "I", "J", "K", "L", "M",
     "N", "O", "P", "Q", "R", "S", "T", "U", "V", "W", "X", "Y", "Z"}

AlnumChars == DigitChars \cup LetterChars

\* Decimal digits outside ASCII, each written as its code point:
\* ARABIC-INDIC DIGIT ONE and SIX, FULLWIDTH DIGIT SIX
UnicodeDigitChars == {"U+0661", "U+0666", "U+FF16"}

\* What \d matches in a str pattern: every Unicode decimal digit
DecimalChars == DigitChars \cup UnicodeDigitChars

\* int(c) of one decimal digit
DigitVal(c) ==
    CASE c = "U+0661" -> 1
      [] c \in {"U+0666", "U+FF16"} -> 6
      [] OTHER -> CHOOSE v \in 0..9 : DigitStr[v + 1] = c

\* int() of a non-empty sequence of decimal digits
RECURSIVE StrToInt(_)
StrToInt(cs) ==
    IF Len(cs) = 1 THEN DigitVal(cs[1])
    ELSE 10 * StrToInt(SubSeq(cs, 1, Len(cs) - 1)) + DigitVal(cs[Len(cs)])

AllIn(cs, S) == \A i \in 1..Len(cs) : cs[i] \in S

SlashAt(cs) == {i \in 1..Len(cs) : cs[i] = "/"}

\* A pattern whose middle group takes any character but the slash
InvoiceNumber_parse_any_location(cs) ==
    IF Cardinality(SlashAt(cs)) /= 2 THEN None
    ELSE LET i == CHOOSE k \in SlashAt(cs) : \A m \in SlashAt(cs) : k <= m
             j == CHOOSE k \in SlashAt(cs) : \A m \in SlashAt(cs) : m <= k
             seq == SubSeq(cs, 1, i - 1)
             loc == SubSeq(cs, i + 1, j - 1)
             dev == SubSeq(cs, j + 1, Len(cs))
         IN  IF /\ seq /= <<>> /\ loc /= <<>> /\ dev /= <<>>
                /\ AllIn(seq, DecimalChars)
                /\ AllIn(dev, DecimalChars)
             THEN Some(<<seq, loc, dev>>)
             ELSE None

\* re.fullmatch(r"(\d+)/([0-9a-zA-Z]+)/(\d+)", value): the three groups, or
\* None where the code raises ValueError
InvoiceNumber_parse(cs) ==
    IF Cardinality(SlashAt(cs)) /= 2 THEN None
    ELSE LET i == CHOOSE k \in SlashAt(cs) : \A m \in SlashAt(cs) : k <= m
             j == CHOOSE k \in SlashAt(cs) : \A m \in SlashAt(cs) : m <= k
             seq == SubSeq(cs, 1, i - 1)
             loc == SubSeq(cs, i + 1, j - 1)
             dev == SubSeq(cs, j + 1, Len(cs))
         IN  IF /\ seq /= <<>> /\ loc /= <<>> /\ dev /= <<>>
                /\ AllIn(seq, DecimalChars)
                /\ AllIn(loc, AlnumChars)
                /\ AllIn(dev, DecimalChars)
             THEN Some(<<seq, loc, dev>>)
             ELSE None

\* InvoiceNumber(value): None where the constructor raises ValueError
InvoiceNumber(cs) ==
    LET m == InvoiceNumber_parse(cs)
    IN  IF IsNone(m) THEN None
        ELSE Some([invoice_number |-> cs,
                   sequence_number |-> StrToInt(Val(m)[1]),
                   location_code |-> Join(Val(m)[2]),
                   device_number |-> StrToInt(Val(m)[3])])

\* A string form rebuilt from the three parsed fields
InvoiceNumber_text_rebuilt(n) ==
    IntToChars(n.sequence_number) \o <<"/">>
        \o Val(InvoiceNumber_parse(n.invoice_number))[2] \o <<"/">>
        \o IntToChars(n.device_number)

\* InvoiceNumber.__str__, character by character
InvoiceNumber_text(n) == n.invoice_number

InvoiceNumber_str(n) == Join(InvoiceNumber_text(n))

----------------------------------------------------------------------------
(* Signer.sign_zki_payload and ZKI *)

\* md5(RSA-SHA1 signature of data).hexdigest(), kept symbolic: one digest
\* per payload.  Signer_sign_zki_payload below computes it step by step
sign_zki_payload(data) == "md5(rsa_sha1(" \o data \o "))"

\* A payload that leaves the device number out
ZKI_payload_no_device(oib, dt, invoice_number, amount) ==
    oib
        \o strftime_zki(dt)
        \o IntToStr(invoice_number.sequence_number)
        \o invoice_number.location_code
        \o DecimalStr(amount)

\* The payload ZKI.calculate joins and hands to the signer
ZKI_payload(oib, dt, invoice_number, amount) ==
    oib
        \o strftime_zki(dt)
        \o IntToStr(invoice_number.sequence_number)
        \o invoice_number.location_code
        \o IntToStr(invoice_number.device_number)
        \o DecimalStr(amount)

\* ZKI.calculate: what the signer receives and the ZKI value returned
ZKI_calculate(oib, dt, invoice_number, amount) ==
    LET payload == ZKI_payload(oib, dt, invoice_number, amount)
    IN  [signed |-> <<payload>>, zki |-> sign_zki_payload(payload)]

----------------------------------------------------------------------------
(* OIB *)

Min(a, b) == IF a < b THEN a ELSE b

\* The loop of OIB._calc_checksum over the first k characters
RECURSIVE OIB_csum(_, _)
OIB_csum(cs, k) ==
    IF k = 0 THEN 10
    ELSE LET a == (DigitVal(cs[k]) + OIB_csum(cs, k - 1)) % 10
             b == IF a = 0 THEN 10 ELSE a
         IN  (b * 2) % 11

OIB_calc_checksum(cs) == (11 - OIB_csum(cs, Min(10, Len(cs)))) % 10

\* OIB._verify: None when it returns, the ValueError's message when it raises
OIB_verify(cs) ==
    IF Len(cs) /= 11 \/ ~AllIn(cs, DecimalChars)
    THEN Some("OIB must have exactly 11 digits")
    ELSE IF OIB_calc_checksum(cs) /= DigitVal(cs[11])
    THEN Some("Incorrect OIB (control digit " \o cs[11] \o ", expected "
                \o IntToStr(OIB_calc_checksum(cs)) \o ")")
    ELSE None

\* OIB(oib): the value held, or None where the constructor raises ValueError
OIB(cs) == IF IsNone(OIB_verify(cs)) THEN Some(Join(cs)) ELSE None

----------------------------------------------------------------------------
(* to_decimal2 and the enumerations *)

\* Decimal(value).quantize(Decimal("1.00")) under the default context
\* (ROUND_HALF_EVEN); value is given in ten-thousandths; the result keeps
\* the sign of value, also when it rounds to zero
to_decimal2(n) ==
    LET a == Abs(n)
        q == a \div 100
        r == a % 100
        m == IF r > 50 \/ (r = 50 /\ q % 2 = 1) THEN q + 1 ELSE q
    IN  Decimal2(IF n < 0 THEN 1 ELSE 0, m)

\* A quantize that rounds halves away from zero
quantize_half_up(x, d) ==
    LET q == x.coeff \div d
        m == IF 2 * (x.coeff % d) >= d THEN q + 1 ELSE q
    IN  Decimal2(x.sign, m)

\* x.quantize(Decimal("1.00")) under the default context (ROUND_HALF_EVEN),
\* for x with sign x.sign and x.coeff / d hundredths, d positive: the sign
\* stays, also on a result of zero
quantize(x, d) ==
    LET q == x.coeff \div d
        r == x.coeff % d
        m == IF 2 * r > d \/ (2 * r = d /\ q % 2 = 1) THEN q + 1 ELSE q
    IN  Decimal2(x.sign, m)

PaymentMethod_CASH == "G"
PaymentMethod_CARD == "K"
PaymentMethod_CHECK == "C"
PaymentMethod_WIRE == "T"
PaymentMethod_OTHER == "O"

PaymentMethod ==
    {PaymentMethod_CASH, PaymentMethod_CARD, PaymentMethod_CHECK,
     PaymentMethod_WIRE, PaymentMethod_OTHER}

SequenceScope_LOCATION == "P"
SequenceScope_DEVICE == "N"

----------------------------------------------------------------------------
(* Documents: the backing attributes and the two queries *)

Variants ==
    {"Invoice", "InvoiceWithDoc", "InvoicePaymentMethodChange", "Document"}

InvoiceVariants ==
    {"Invoice", "InvoiceWithDoc", "InvoicePaymentMethodChange"}

\* The attributes after BaseDocument.__init__ without keyword arguments,
\* constructed at time now: every deleter has run
NewDocument(now) ==
    [oib |-> None, issued_at |-> now, invoice_number |-> None,
     total |-> None, late_registration |-> FALSE,
     vat_items |-> None, ctax_items |-> None, fee_items |-> None,
     vat_registered |-> FALSE, sequence_scope |-> SequenceScope_LOCATION,
     vat_exempt_amount |-> None, margin_taxation_amount |-> None,
     tax_exempt_total |-> None, payment_method |-> PaymentMethod_OTHER,
     operator_oib |-> None, paragon_number |-> None,
     document_jir |-> None, document_zki |-> None,
     new_payment_method |-> None, original_zki |-> None]

\* bool() of an optional string
Truthy(o) == ~IsNone(o) /\ Val(o) /= ""

\* The outcome of a call: the exception raised or the value returned, and
\* the payloads the signer received on the way
Raise(msg, signed) ==
    [exc |-> Some([type |-> "ValueError", msg |-> msg]), ret |-> None,
     signed |-> signed]

Return(v, signed) == [exc |-> None, ret |-> Some(v), signed |-> signed]

Raised(r) == ~IsNone(r.exc)

\* TaxItem.__init__ once base, rate and amount are Decimals of two places:
\* the product takes the sign of its factors, the comparison is by value
TaxItem_check(b, r, a) ==
    LET calculated ==
            quantize(Decimal2((b.sign + r.sign) % 2, b.coeff * r.coeff),
                     10000)
    IN  IF Hundredths(calculated) /= Hundredths(a)
        THEN Raise("Calculated tax amount " \o DecimalStr(calculated)
                     \o " differs from provided " \o DecimalStr(a), <<>>)
        ELSE Return([base |-> b, rate |-> r, amount |-> a], <<>>)

\* TaxItem(base, rate, amount), the arguments in ten-thousandths: the
\* stored Decimals, or the ValueError
TaxItem(base, rate, amount) ==
    TaxItem_check(to_decimal2(base), to_decimal2(rate), to_decimal2(amount))

\* A calculate_zki that signs before it looks at oib and total
calculate_zki_unchecked(d) ==
    IF IsNone(d.invoice_number) THEN Raise("Invoice number is required", <<>>)
    ELSE LET r == ZKI_calculate(
                      IF IsNone(d.oib) THEN "None" ELSE Val(d.oib),
                      d.issued_at, Val(d.invoice_number),
                      IF IsNone(d.total) THEN Decimal2(0, 0) ELSE Val(d.total))
         IN  Return(r.zki, r.signed)

\* BaseDocument.calculate_zki
calculate_zki(d) ==
    IF IsNone(d.invoice_number) THEN Raise("Invoice number is required", <<>>)
    ELSE IF IsNone(d.oib) THEN Raise("OIB is required", <<>>)
    ELSE IF IsNone(d.total)
    THEN Raise("Total invoice amount is required", <<>>)
    ELSE LET r == ZKI_calculate(Val(d.oib), d.issued_at,
                                Val(d.invoice_number), Val(d.total))
         IN  Return(r.zki, r.signed)

\* A getter that reads only what was assigned
operator_oib_stored(d) == d.operator_oib

\* Invoice.operator_oib (getter)
operator_oib(d) == IF ~IsNone(d.operator_oib) THEN d.operator_oib ELSE d.oib

----------------------------------------------------------------------------
(* Serialization: to_ws_object of the four variants *)

get_ws_object_type(v) ==
    CASE v = "Invoice" -> "RacunType"
      [] v = "InvoiceWithDoc" -> "RacunPDType"
      [] v = "InvoicePaymentMethodChange" -> "RacunPNPType"
      [] v = "Document" -> "PrateciDokumentType"

\* bool() of an optional list
TruthyList(o) == ~IsNone(o) /\ Val(o) /= <<>>

\* A list of tax entries that comes out back to front
PorezList_reversed(items) ==
    [i \in 1..Len(items) |->
        [Stopa |-> items[Len(items) + 1 - i].rate,
         Osnovica |-> items[Len(items) + 1 - i].base,
         Iznos |-> items[Len(items) + 1 - i].amount]]

PorezList(items) ==
    [i \in 1..Len(items) |->
        [Stopa |-> items[i].rate, Osnovica |-> items[i].base,
         Iznos |-> items[i].amount]]

NaknadaList(items) ==
    [i \in 1..Len(items) |->
        [NazivN |-> items[i].name, IznosN |-> items[i].amount]]

\* A serialization that emits the computed code whatever the caller supplied
Invoice_to_ws_object_computed_zki(v, d, original_zki) ==
    LET z == calculate_zki(d)
    IN  IF Raised(z) THEN z
        ELSE Return([type |-> get_ws_object_type(v), Oib |-> d.oib,
                     NacinPlac |-> d.payment_method,
                     ZastKod |-> Val(z.ret)], z.signed)

\* Invoice.to_ws_object
Invoice_to_ws_object(v, d, original_zki) ==
    LET z == calculate_zki(d)
    IN  IF Raised(z) THEN z
        ELSE LET n == Val(d.invoice_number)
             IN  Return(
                   [type |-> get_ws_object_type(v),
                    Oib |-> d.oib,
                    USustPdv |-> d.vat_registered,
                    DatVrijeme |-> strftime_ws(d.issued_at),
                    OznSlijed |-> d.sequence_scope,
                    BrRac |-> [BrOznRac |-> n.sequence_number,
                               OznPosPr |-> n.location_code,
                               OznNapUr |-> n.device_number],
                    Pdv |-> IF TruthyList(d.vat_items)
                            THEN Some([Porez |-> PorezList(Val(d.vat_items))])
                            ELSE None,
                    Pnp |-> IF TruthyList(d.ctax_items)
                            THEN Some([Porez |-> PorezList(Val(d.ctax_items))])
                            ELSE None,
                    IznosOslobPdv |-> d.vat_exempt_amount,
                    IznosMarza |-> d.margin_taxation_amount,
                    IznosNePodlOpor |-> d.tax_exempt_total,
                    Naknade |-> IF TruthyList(d.fee_items)
                                THEN Some(NaknadaList(Val(d.fee_items)))
                                ELSE None,
                    IznosUkupno |-> d.total,
                    NacinPlac |-> d.payment_method,
                    OibOper |-> operator_oib(d),
                    ZastKod |-> IF Truthy(original_zki)
                                THEN Val(original_zki) ELSE Val(z.ret),
                    NakDost |-> d.late_registration,
                    ParagonBrRac |-> d.paragon_number,
                    OstaliPor |-> None,
                    SpecNamj |-> None],
                   z.signed)

\* A serialization that refuses a document carrying both references
InvoiceWithDoc_to_ws_object_exclusive(v, d) ==
    LET o == Invoice_to_ws_object(v, d, None)
    IN  IF Raised(o) THEN o
        ELSE IF Truthy(d.document_jir) /\ ~IsNone(d.document_zki)
        THEN Raise("Only one of document_jir and document_zki", o.signed)
        ELSE IF Truthy(d.document_jir)
        THEN Return(Val(o.ret) @@ [PrateciDokument |->
                        <<[JirPD |-> Val(d.document_jir)]>>], o.signed)
        ELSE IF ~IsNone(d.document_zki)
        THEN Return(Val(o.ret) @@ [PrateciDokument |->
                        <<[ZastKodPD |-> Val(d.document_zki)]>>], o.signed)
        ELSE Raise("Either document_jir or document_zki must be set",
                   o.signed)

\* A serialization that files each reference under the other one's field
InvoiceWithDoc_to_ws_object_swapped(v, d) ==
    LET o == Invoice_to_ws_object(v, d, None)
    IN  IF Raised(o) THEN o
        ELSE IF Truthy(d.document_jir)
        THEN Return(Val(o.ret) @@ [PrateciDokument |->
                        <<[ZastKodPD |-> Val(d.document_jir)]>>], o.signed)
        ELSE IF ~IsNone(d.document_zki)
        THEN Return(Val(o.ret) @@ [PrateciDokument |->
                        <<[JirPD |-> Val(d.document_zki)]>>], o.signed)
        ELSE Raise("Either document_jir or document_zki must be set",
                   o.signed)

\* InvoiceWithDoc.to_ws_object
InvoiceWithDoc_to_ws_object(v, d) ==
    LET o == Invoice_to_ws_object(v, d, None)
    IN  IF Raised(o) THEN o
        ELSE IF Truthy(d.document_jir)
        THEN Return(Val(o.ret) @@ [PrateciDokument |->
                        <<[JirPD |-> Val(d.document_jir)]>>], o.signed)
        ELSE IF ~IsNone(d.document_zki)
        THEN Return(Val(o.ret) @@ [PrateciDokument |->
                        <<[ZastKodPD |-> Val(d.document_zki)]>>], o.signed)
        ELSE Raise("Either document_jir or document_zki must be set",
                   o.signed)

\* A serialization that does not compare the new method with the current one
InvoicePaymentMethodChange_to_ws_object_unchecked(v, d) ==
    IF ~Truthy(d.original_zki) THEN Raise("Original ZKI must be set", <<>>)
    ELSE IF ~Truthy(d.new_payment_method)
    THEN Raise("New payment method must be set", <<>>)
    ELSE LET o == Invoice_to_ws_object(v, d, d.original_zki)
         IN  IF Raised(o) THEN o
             ELSE Return(Val(o.ret) @@ [PromijenjeniNacinPlac |->
                             Val(d.new_payment_method)], o.signed)

\* InvoicePaymentMethodChange.to_ws_object.  Both tests are of the truth
\* value: "if not self.original_zki", "if not self.new_payment_method"
InvoicePaymentMethodChange_to_ws_object(v, d) ==
    IF ~Truthy(d.original_zki) THEN Raise("Original ZKI must be set", <<>>)
    ELSE IF ~Truthy(d.new_payment_method)
    THEN Raise("New payment method must be set", <<>>)
    ELSE IF Val(d.new_payment_method) = d.payment_method
    THEN Raise("New payment method can't be the same as current", <<>>)
    ELSE LET o == Invoice_to_ws_object(v, d, d.original_zki)
         IN  IF Raised(o) THEN o
             ELSE Return(Val(o.ret) @@ [PromijenjeniNacinPlac |->
                             Val(d.new_payment_method)], o.signed)

\* Document.to_ws_object
Document_to_ws_object(v, d) ==
    LET z == calculate_zki(d)
    IN  IF Raised(z) THEN z
        ELSE LET n == Val(d.invoice_number)
             IN  Return(
                   [type |-> get_ws_object_type(v),
                    Oib |-> d.oib,
                    DatVrijeme |-> strftime_ws(d.issued_at),
                    BrPratecegDokumenta |->
                        [BrOznPD |-> n.sequence_number,
                         OznPosPr |-> n.location_code,
                         OznNapUr |-> n.device_number],
                    IznosUkupno |-> d.total,
                    ZastKodPD |-> Val(z.ret),
                    NakDost |-> d.late_registration],
                   z.signed)

\* to_ws_object as the variant's class defines it
to_ws_object(v, d) ==
    CASE v = "Invoice" -> Invoice_to_ws_object(v, d, None)
      [] v = "InvoiceWithDoc" -> InvoiceWithDoc_to_ws_object(v, d)
      [] v = "InvoicePaymentMethodChange" ->
             InvoicePaymentMethodChange_to_ws_object(v, d)
      [] v = "Document" -> Document_to_ws_object(v, d)

----------------------------------------------------------------------------
(* SpecDoc: one document, its setters and deleters, and its two queries *)

Clock == {datetime(2022, 1, 1, 0, 0, 0), datetime(2022, 8, 1, 15, 30, 0)}

OibInputs ==
    {<<"1", "2", "3", "1", "2", "3", "1", "2", "3", "1", "6">>,
     <<"1", "2", "3", "4", "5", "6", "7", "8", "9", "0", "3">>,
     <<"1", "2", "3", "1", "2", "3", "1", "2", "3", "1", "2">>}

NumberInputs ==
    {<<"1", "/", "X", "/", "1">>,
     <<"1", "0", "0", "1", "/", "V", "P", "1", "/", "9">>,
     <<"1", "/", "X">>}

\* 100, 314.1592 and -0.001, which is stored as a negative zero
TotalInputs == {1000000, 3141592, -10}

JirInputs == {"", "00000000000000000000000000000000"}

\* Values assigned to original_zki, whose setter takes any
ZkiInputs == {"abcdabcdabcdabcdabcdabcdabcdabcd", ""}

\* Values assigned to new_payment_method, whose setter takes any: the
\* members of the enumeration, which are all true in a test, and the empty
\* text, which is not
NewPaymentMethodInputs == PaymentMethod \cup {""}

HexChars == DigitChars \cup {"a", "b", "c", "d", "e", "f"}

\* ZKI(val): the code as text, or None where the constructor raises
ZKI(cs) ==
    IF Len(cs) = 32 /\ AllIn(cs, HexChars) THEN Some(Join(cs)) ELSE None

\* Texts assigned to document_zki: 32 hexadecimal digits, the same in
\* capitals, 31 digits, three letters and the empty text
DocumentZkiInputs ==
    {[i \in 1..32 |-> <<"a", "b", "c", "d">>[((i - 1) % 4) + 1]],
     [i \in 1..32 |-> <<"A", "B", "C", "D">>[((i - 1) % 4) + 1]],
     [i \in 1..31 |-> <<"a", "b", "c", "d">>[((i - 1) % 4) + 1]],
     <<"X", "Y", "Z">>, <<>>}

Operation(op, r) ==
    [op |-> op, exc |-> r.exc, ret |-> r.ret, signed |-> r.signed]

Assigned == Operation("set", Return("None", <<>>))
Rejected(msg) == Operation("set", Raise(msg, <<>>))
Deleted == Operation("del", Return("None", <<>>))

DocIdle ==
    /\ variant = "Document"
    /\ doc = NewDocument(datetime(2022, 1, 1, 0, 0, 0))
    /\ last = Operation("new", Return("None", <<>>))

DocInit ==
    /\ variant \in Variants
    /\ \E now \in Clock : doc = NewDocument(now)
    /\ last = Operation("new", Return("None", <<>>))

SetOib(cs) ==
    /\ IF IsNone(OIB(cs))
       THEN doc' = doc /\ last' = Rejected(Val(OIB_verify(cs)))
       ELSE doc' = [doc EXCEPT !.oib = OIB(cs)] /\ last' = Assigned
    /\ UNCHANGED <<variant, docOthers>>

DelOib ==
    /\ doc' = [doc EXCEPT !.oib = None]
    /\ last' = Deleted
    /\ UNCHANGED <<variant, docOthers>>

SetInvoiceNumber(cs) ==
    /\ IF IsNone(InvoiceNumber(cs))
       THEN /\ doc' = doc
            /\ last' = Rejected("Invoice number must be in format nnn/ABC/nnn")
       ELSE /\ doc' = [doc EXCEPT !.invoice_number = InvoiceNumber(cs)]
            /\ last' = Assigned
    /\ UNCHANGED <<variant, docOthers>>

DelInvoiceNumber ==
    /\ doc' = [doc EXCEPT !.invoice_number = None]
    /\ last' = Deleted
    /\ UNCHANGED <<variant, docOthers>>

SetTotal(amount) ==
    /\ doc' = [doc EXCEPT !.total = Some(to_decimal2(amount))]
    /\ last' = Assigned
    /\ UNCHANGED <<variant, docOthers>>

DelTotal ==
    /\ doc' = [doc EXCEPT !.total = None]
    /\ last' = Deleted
    /\ UNCHANGED <<variant, docOthers>>

SetPaymentMethod(method) ==
    /\ variant \in InvoiceVariants
    /\ doc' = [doc EXCEPT !.payment_method = method]
    /\ last' = Assigned
    /\ UNCHANGED <<variant, docOthers>>

DelPaymentMethod ==
    /\ variant \in InvoiceVariants
    /\ doc' = [doc EXCEPT !.payment_method = PaymentMethod_OTHER]
    /\ last' = Deleted
    /\ UNCHANGED <<variant, docOthers>>

SetDocumentJir(jir) ==
    /\ variant = "InvoiceWithDoc"
    /\ doc' = [doc EXCEPT !.document_jir = Some(jir)]
    /\ last' = Assigned
    /\ UNCHANGED <<variant, docOthers>>

DelDocumentJir ==
    /\ variant = "InvoiceWithDoc"
    /\ doc' = [doc EXCEPT !.document_jir = None]
    /\ last' = Deleted
    /\ UNCHANGED <<variant, docOthers>>

SetDocumentZki(cs) ==
    /\ variant = "InvoiceWithDoc"
    /\ IF IsNone(ZKI(cs))
       THEN /\ doc' = doc
            /\ last' = Rejected("Incorrect ZKI format: " \o Join(cs))
       ELSE /\ doc' = [doc EXCEPT !.document_zki = ZKI(cs)]
            /\ last' = Assigned
    /\ UNCHANGED <<variant, docOthers>>

DelDocumentZki ==
    /\ variant = "InvoiceWithDoc"
    /\ doc' = [doc EXCEPT !.document_zki = None]
    /\ last' = Deleted
    /\ UNCHANGED <<variant, docOthers>>

SetNewPaymentMethod(method) ==
    /\ variant = "InvoicePaymentMethodChange"
    /\ doc' = [doc EXCEPT !.new_payment_method = Some(method)]
    /\ last' = Assigned
    /\ UNCHANGED <<variant, docOthers>>

DelNewPaymentMethod ==
    /\ variant = "InvoicePaymentMethodChange"
    /\ doc' = [doc EXCEPT !.new_payment_method = None]
    /\ last' = Deleted
    /\ UNCHANGED <<variant, docOthers>>

SetOriginalZki(zki) ==
    /\ variant = "InvoicePaymentMethodChange"
    /\ doc' = [doc EXCEPT !.original_zki = Some(zki)]
    /\ last' = Assigned
    /\ UNCHANGED <<variant, docOthers>>

DelOriginalZki ==
    /\ variant = "InvoicePaymentMethodChange"
    /\ doc' = [doc EXCEPT !.original_zki = None]
    /\ last' = Deleted
    /\ UNCHANGED <<variant, docOthers>>

CalculateZki ==
    /\ last' = Operation("calculate_zki", calculate_zki(doc))
    /\ UNCHANGED <<variant, doc, docOthers>>

ToWsObject ==
    /\ last' = Operation("to_ws_object", to_ws_object(variant, doc))
    /\ UNCHANGED <<variant, doc, docOthers>>

DocNext ==
    \/ \E cs \in OibInputs : SetOib(cs)
    \/ DelOib
    \/ \E cs \in NumberInputs : SetInvoiceNumber(cs)
    \/ DelInvoiceNumber
    \/ \E amount \in TotalInputs : SetTotal(amount)
    \/ DelTotal
    \/ \E method \in PaymentMethod : SetPaymentMethod(method)
    \/ DelPaymentMethod
    \/ \E jir \in JirInputs : SetDocumentJir(jir)
    \/ DelDocumentJir
    \/ \E cs \in DocumentZkiInputs : SetDocumentZki(cs)
    \/ DelDocumentZki
    \/ \E method \in NewPaymentMethodInputs : SetNewPaymentMethod(method)
    \/ DelNewPaymentMethod
    \/ \E zki \in ZkiInputs : SetOriginalZki(zki)
    \/ DelOriginalZki
    \/ CalculateZki
    \/ ToWsObject

----------------------------------------------------------------------------
(* The settable properties: what __init__ scans, and their fset, fdel, fget *)

BaseProperties ==
    <<"oib", "issued_at", "invoice_number", "total", "is_late_registration">>

InvoiceProperties ==
    <<"vat", "consumption_tax", "fees", "is_vat_registered",
      "sequence_scope", "vat_exempt", "special_margin_taxation",
      "tax_exempt_total", "payment_method", "operator_oib",
      "paragon_number">>

\* The properties in the order the loop over mro() meets them
Properties(v) ==
    CASE v = "Invoice" -> InvoiceProperties \o BaseProperties
      [] v = "InvoiceWithDoc" ->
             <<"document_jir", "document_zki">> \o InvoiceProperties
                 \o BaseProperties
      [] v = "InvoicePaymentMethodChange" ->
             <<"new_payment_method", "original_zki">> \o InvoiceProperties
                 \o BaseProperties
      [] v = "Document" -> BaseProperties

PropertyNames(v) == {Properties(v)[i] : i \in 1..Len(Properties(v))}

\* The attribute behind a property
Attr(name) ==
    CASE name = "is_late_registration" -> "late_registration"
      [] name = "vat" -> "vat_items"
      [] name = "consumption_tax" -> "ctax_items"
      [] name = "fees" -> "fee_items"
      [] name = "is_vat_registered" -> "vat_registered"
      [] name = "vat_exempt" -> "vat_exempt_amount"
      [] name = "special_margin_taxation" -> "margin_taxation_amount"
      [] OTHER -> name

\* The setter of a property: the document after it, or the ValueError
fset(name, d, value) ==
    CASE name \in {"oib", "operator_oib"} ->
             IF IsNone(OIB(value)) THEN Raise(Val(OIB_verify(value)), <<>>)
             ELSE Return([d EXCEPT ![Attr(name)] = OIB(value)], <<>>)
      [] name = "invoice_number" ->
             IF IsNone(InvoiceNumber(value))
             THEN Raise("Invoice number must be in format nnn/ABC/nnn", <<>>)
             ELSE Return([d EXCEPT !.invoice_number = InvoiceNumber(value)],
                         <<>>)
      [] name \in {"total", "vat_exempt", "special_margin_taxation",
                   "tax_exempt_total"} ->
             Return([d EXCEPT ![Attr(name)] = Some(to_decimal2(value))], <<>>)
      [] name = "vat" ->
             IF Len(value) = 0 THEN Raise("VAT must not be an empty list", <<>>)
             ELSE Return([d EXCEPT !.vat_items = Some(value)], <<>>)
      [] name = "consumption_tax" ->
             IF Len(value) = 0
             THEN Raise("Consumption tax must not be an empty list", <<>>)
             ELSE Return([d EXCEPT !.ctax_items = Some(value)], <<>>)
      [] name = "fees" ->
             IF Len(value) = 0
             THEN Raise("Fees must not be an empty list", <<>>)
             ELSE Return([d EXCEPT !.fee_items = Some(value)], <<>>)
      [] name = "document_zki" ->
             IF IsNone(ZKI(value))
             THEN Raise("Incorrect ZKI format: " \o Join(value), <<>>)
             ELSE Return([d EXCEPT !.document_zki = ZKI(value)], <<>>)
      [] name \in {"issued_at", "is_late_registration", "is_vat_registered",
                   "sequence_scope", "payment_method"} ->
             Return([d EXCEPT ![Attr(name)] = value], <<>>)
      [] name \in {"paragon_number", "document_jir", "new_payment_method",
                   "original_zki"} ->
             Return([d EXCEPT ![Attr(name)] = Some(value)], <<>>)

\* A deleter that leaves the attribute as it is
fdel_keep(name, d, now) == d

\* The deleter of a property, run at time now
fdel(name, d, now) ==
    CASE name = "issued_at" -> [d EXCEPT !.issued_at = now]
      [] name \in {"is_late_registration", "is_vat_registered"} ->
             [d EXCEPT ![Attr(name)] = FALSE]
      [] name = "sequence_scope" ->
             [d EXCEPT !.sequence_scope = SequenceScope_LOCATION]
      [] name = "payment_method" ->
             [d EXCEPT !.payment_method = PaymentMethod_OTHER]
      [] OTHER -> [d EXCEPT ![Attr(name)] = None]

\* The getter of a property
fget(name, d) ==
    IF name = "operator_oib" THEN operator_oib(d) ELSE d[Attr(name)]

\* BaseDocument.__init__: the loop over the properties still to visit
RECURSIVE BaseDocument_init(_, _, _, _)
BaseDocument_init(names, kwargs, d, now) ==
    IF names = <<>> THEN Return(d, <<>>)
    ELSE IF Head(names) \in DOMAIN kwargs
    THEN LET r == fset(Head(names), d, kwargs[Head(names)])
         IN  IF Raised(r) THEN r
             ELSE BaseDocument_init(Tail(names), kwargs, Val(r.ret), now)
    ELSE BaseDocument_init(Tail(names), kwargs,
                           fdel(Head(names), d, now), now)

----------------------------------------------------------------------------
(* SpecField: a document built from keyword arguments, then assignments
   to and resets of its properties, and its serialization *)

MaxFieldOps == 2

FieldZki == [i \in 1..32 |-> <<"a", "b", "c", "d">>[((i - 1) % 4) + 1]]

FieldVat ==
    <<Val(TaxItem(1000000, 250000, 250000).ret)>>

FieldVatTwo ==
    <<Val(TaxItem(2000000, 130000, 260000).ret),
      Val(TaxItem(1000000, 250000, 250000).ret)>>

FieldFees == <<[name |-> "Povratna naknada", amount |-> to_decimal2(5000)]>>

FieldFeesTwo ==
    <<[name |-> "Spomenicka renta", amount |-> to_decimal2(12000)],
      [name |-> "Povratna naknada", amount |-> to_decimal2(5000)]>>

\* The values the setters are called with
FieldInputs(name) ==
    CASE name \in {"oib", "operator_oib"} -> OibInputs
      [] name = "invoice_number" ->
             {<<"1", "/", "X", "/", "1">>, <<"1", "/", "X">>}
      [] name = "issued_at" -> {datetime(2021, 12, 31, 23, 59, 59)}
      [] name \in {"total", "vat_exempt", "special_margin_taxation",
                   "tax_exempt_total"} -> {3141592}
      [] name \in {"is_late_registration", "is_vat_registered"} -> {TRUE}
      [] name \in {"vat", "consumption_tax"} -> {<<>>, FieldVat, FieldVatTwo}
      [] name = "fees" -> {<<>>, FieldFees, FieldFeesTwo}
      [] name = "sequence_scope" -> {SequenceScope_DEVICE}
      [] name \in {"payment_method", "new_payment_method"} ->
             {PaymentMethod_CASH}
      [] name = "paragon_number" -> {"17"}
      [] name = "document_jir" -> {"00000000000000000000000000000000"}
      [] name = "document_zki" -> {FieldZki, <<"X", "Y", "Z">>}
      [] name = "original_zki" -> {"abcdabcdabcdabcdabcdabcdabcdabcd"}

FieldKwargsKinds == {"none", "required"}

\* The keyword arguments of the constructor
FieldKwargs(v, kind) ==
    LET required ==
            [oib |-> <<"1", "2", "3", "1", "2", "3", "1", "2", "3", "1", "6">>,
             invoice_number |-> <<"1", "/", "X", "/", "1">>,
             total |-> 1000000]
        refs ==
            CASE v = "InvoiceWithDoc" ->
                     [document_jir |-> "00000000000000000000000000000000"]
              [] v = "InvoicePaymentMethodChange" ->
                     [new_payment_method |-> PaymentMethod_CARD,
                      original_zki |-> "abcdabcdabcdabcdabcdabcdabcdabcd"]
              [] OTHER -> [x \in {} |-> x]
        operator ==
            IF v \in InvoiceVariants
            THEN [operator_oib |->
                    <<"1", "2", "3", "4", "5", "6", "7", "8", "9", "0", "3">>]
            ELSE [x \in {} |-> x]
    IN  CASE kind = "none" -> [x \in {} |-> x]
          [] kind = "required" -> required @@ refs @@ operator

\* What is known of one property: its latest operation, its latest
\* operation that went through, the value that one assigned, and when the
\* latest deleter ran
FieldSet(value, at) ==
    [latest |-> "set", good |-> "set", value |-> Some(value), at |-> at]

FieldDeleted(kind, at) ==
    [latest |-> kind, good |-> kind, value |-> None, at |-> at]

FieldInit ==
    /\ variant \in Variants
    /\ \E kind \in FieldKwargsKinds :
            LET now == datetime(2022, 1, 1, 0, 0, 0)
                kwargs == FieldKwargs(variant, kind)
                r == BaseDocument_init(Properties(variant), kwargs,
                                       NewDocument(now), now)
            IN  /\ ~Raised(r)
                /\ doc = Val(r.ret)
                /\ last =
                     [op |-> "new", field |-> "", arg |-> None, exc |-> None,
                      ret |-> Some("None"), signed |-> <<>>, n |-> 0,
                      seen |->
                        [f \in PropertyNames(variant) |->
                           IF f \in DOMAIN kwargs
                           THEN FieldSet(kwargs[f], now)
                           ELSE FieldDeleted("new", now)]]

Assign(name, value) ==
    /\ last.n < MaxFieldOps
    /\ name \in PropertyNames(variant)
    /\ LET r == fset(name, doc, value)
       IN  /\ doc' = IF Raised(r) THEN doc ELSE Val(r.ret)
           /\ last' =
                [op |-> "set", field |-> name, arg |-> Some(value),
                 exc |-> r.exc,
                 ret |-> IF Raised(r) THEN None ELSE Some("None"),
                 signed |-> <<>>, n |-> last.n + 1,
                 seen |->
                   [last.seen EXCEPT ![name] =
                      IF Raised(r) THEN [@ EXCEPT !.latest = "failed"]
                      ELSE FieldSet(value, @.at)]]
    /\ UNCHANGED <<variant, docOthers>>

Reset(name, now) ==
    /\ last.n < MaxFieldOps
    /\ name \in PropertyNames(variant)
    /\ doc' = fdel(name, doc, now)
    /\ last' =
         [op |-> "del", field |-> name, arg |-> None, exc |-> None,
          ret |-> Some("None"), signed |-> <<>>, n |-> last.n + 1,
          seen |-> [last.seen EXCEPT ![name] = FieldDeleted("del", now)]]
    /\ UNCHANGED <<variant, docOthers>>

Serialize ==
    /\ LET r == to_ws_object(variant, doc)
       IN  last' = [last EXCEPT !.op = "to_ws_object", !.field = "",
                                !.arg = None, !.exc = r.exc, !.ret = r.ret,
                                !.signed = r.signed]
    /\ UNCHANGED <<variant, doc, docOthers>>

\* The assignments tried: a property and a value for it
FieldAssignments ==
    UNION {{<<name, value>> : value \in FieldInputs(name)} :
             name \in PropertyNames("InvoiceWithDoc")
                 \cup PropertyNames("InvoicePaymentMethodChange")}

\* The resets tried: a property and the time the deleter runs at
FieldResets ==
    (PropertyNames("InvoiceWithDoc")
         \cup PropertyNames("InvoicePaymentMethodChange"))
        \X {datetime(2022, 8, 1, 15, 30, 0)}

FieldNext ==
    \/ \E a \in FieldAssignments : Assign(a[1], a[2])
    \/ \E r \in FieldResets : Reset(r[1], r[2])
    \/ Serialize

----------------------------------------------------------------------------
(* Invoice.get_qr_link *)

BASE_INVOICE_QR_CHECK_URL == "https://porezna.gov.hr/rn"

\* An int() that rounds towards minus infinity
int_floor(n, d) == n \div d

\* int() of the Decimal n / d: the fraction is dropped, towards zero
int(n, d) == IF n >= 0 THEN n \div d ELSE -((-n) \div d)

\* dt.strftime("%Y%m%d_%H%M"), years of four digits
strftime_qr(dt) ==
    IntToStr(dt.year) \o Pad2(dt.month) \o Pad2(dt.day) \o "_"
        \o Pad2(dt.hour) \o Pad2(dt.minute)

\* urllib.parse.quote_plus of one character
quote_plus_char(c) ==
    IF c \in AlnumChars \cup {"_", ".", "-", "~"} THEN c
    ELSE CASE c = " " -> "+"
           [] c = "&" -> "%26"
           [] c = "=" -> "%3D"
           [] c = "/" -> "%2F"

\* urllib.parse.quote_plus of a text given character by character
quote_plus(cs) == Join([i \in 1..Len(cs) |-> quote_plus_char(cs[i])])

\* A link that carries the computed code whatever jir is
get_qr_link_always_zki(d, jir) ==
    LET z == calculate_zki(d)
    IN  IF Raised(z) THEN z
        ELSE LET izn == IntToStr(int(123 * Hundredths(Val(d.total)), 100))
                 datv == strftime_qr(d.issued_at)
             IN  Return(
                   [izn |-> Some(izn), datv |-> Some(datv), jir |-> None,
                    zki |-> z.ret,
                    link |-> BASE_INVOICE_QR_CHECK_URL \o "?izn=" \o izn
                                 \o "&datv=" \o datv \o "&zki=" \o Val(z.ret)],
                   z.signed)

\* Invoice.get_qr_link(jir): the parameters of the link and the link; izn
\* and datv hold no character that urlencode escapes, and neither does the
\* hexadecimal code
get_qr_link(d, jir) ==
    LET z == calculate_zki(d)
    IN  IF Raised(z) THEN z
        ELSE LET izn == IntToStr(int(123 * Hundredths(Val(d.total)), 100))
                 datv == strftime_qr(d.issued_at)
                 given == ~IsNone(jir) /\ Val(jir) /= <<>>
             IN  Return(
                   [izn |-> Some(izn), datv |-> Some(datv),
                    jir |-> IF given THEN Some(Join(Val(jir))) ELSE None,
                    zki |-> IF given THEN None ELSE z.ret,
                    link |-> BASE_INVOICE_QR_CHECK_URL \o "?izn=" \o izn
                                 \o "&datv=" \o datv
                                 \o (IF given
                                     THEN "&jir=" \o quote_plus(Val(jir))
                                     ELSE "&zki=" \o Val(z.ret))],
                   z.signed)

----------------------------------------------------------------------------
(* SpecQr: an invoice built from keyword arguments, and its QR link *)

\* Totals as the caller passes them, in ten-thousandths
QrTotals ==
    {1234500, 1000000, 314159, 100, 50, 0, -500, -1234500, 9999, 81, -10}

QrDatetimes ==
    {datetime(2022, 8, 1, 15, 30, 0), datetime(2022, 8, 1, 15, 30, 59),
     datetime(2021, 12, 31, 23, 59, 59), datetime(2023, 1, 2, 3, 4, 5)}

QrJirs ==
    {None, Some(<<>>), Some(<<"f", "a", "k", "e", "j", "i", "r">>),
     Some(<<"a", "-", "1", " ", "&">>)}

\* The keyword arguments: each of the three required ones given or not
QrKwargs(with_oib, with_number, total, issued_at) ==
    (IF with_oib
     THEN [oib |-> <<"1", "2", "3", "1", "2", "3", "1", "2", "3", "1", "6">>]
     ELSE [x \in {} |-> x])
    @@ (IF with_number
        THEN [invoice_number |-> <<"1", "/", "X", "/", "1">>]
        ELSE [x \in {} |-> x])
    @@ (IF IsNone(total) THEN [x \in {} |-> x] ELSE [total |-> Val(total)])
    @@ [issued_at |-> issued_at]

QrInit ==
    /\ variant \in InvoiceVariants
    /\ \E with_oib \in BOOLEAN, with_number \in BOOLEAN,
          total \in {None} \cup {Some(t) : t \in QrTotals},
          issued_at \in QrDatetimes :
         LET now == datetime(2022, 1, 1, 0, 0, 0)
             r == BaseDocument_init(
                      Properties(variant),
                      QrKwargs(with_oib, with_number, total, issued_at),
                      NewDocument(now), now)
         IN  doc = Val(r.ret)
    /\ last = [op |-> "new", arg |-> None, exc |-> None,
               ret |-> Some("None"), signed |-> <<>>]

GetQrLink(jir) ==
    /\ LET r == get_qr_link(doc, jir)
       IN  last' = [op |-> "get_qr_link", arg |-> jir, exc |-> r.exc,
                    ret |-> r.ret, signed |-> r.signed]
    /\ UNCHANGED <<variant, doc, docOthers>>

QrNext == \E jir \in QrJirs : GetQrLink(jir)

----------------------------------------------------------------------------
(* Fault decoding: ResponseErrorEnum, ResponseErrorDetail, ResponseError *)

ResponseErrorEnum ==
    {"v100", "s001", "s002", "s003", "s004", "s005", "s006", "s007", "s008",
     "v101", "v103", "v104", "v105", "v106", "v110", "v112", "v113", "v114",
     "v115", "v116", "v117", "v118", "v120", "v121", "v122", "v123", "v124",
     "v125", "v126", "v127", "v128", "v129", "v130", "v131", "v132", "v133",
     "v134", "v135", "v136", "v137", "v139", "v141", "v142", "v143", "v144",
     "v145", "v148", "v152", "v153"}

ResponseErrorEnum_NO_ERROR == "v100"

\* ResponseErrorEnum.from_code: code_map.get(code)
ResponseErrorEnum_from_code(code) ==
    IF code \in ResponseErrorEnum THEN Some(code) ELSE None

ResponseErrorDetail(code, message) == [code |-> code, message |-> message]

\* ResponseErrorDetail.__str__: None where code.value raises AttributeError
ResponseErrorDetail_str(detail) ==
    IF IsNone(detail.code) THEN None
    ELSE Some(Val(detail.code) \o ": " \o detail.message)

\* A decoder that keeps the sentinel entries
RECURSIVE parse_response_keep_all(_)
parse_response_keep_all(greska) ==
    IF greska = <<>> THEN <<>>
    ELSE <<ResponseErrorDetail(
               ResponseErrorEnum_from_code(Head(greska).SifraGreske),
               Head(greska).PorukaGreske)>>
             \o parse_response_keep_all(Tail(greska))

\* ResponseErrorDetail.parse_response, over response.Greske.Greska
RECURSIVE parse_response(_)
parse_response(greska) ==
    IF greska = <<>> THEN <<>>
    ELSE IF Head(greska).SifraGreske /= ResponseErrorEnum_NO_ERROR
    THEN <<ResponseErrorDetail(
               ResponseErrorEnum_from_code(Head(greska).SifraGreske),
               Head(greska).PorukaGreske)>>
             \o parse_response(Tail(greska))
    ELSE parse_response(Tail(greska))

\* ResponseError(details)
ResponseError(details) ==
    [type |-> "ResponseError", message |-> "Service error",
     details |-> details]

\* ",".join(strs)
RECURSIVE JoinComma(_)
JoinComma(strs) ==
    IF strs = <<>> THEN ""
    ELSE IF Len(strs) = 1 THEN Head(strs)
    ELSE Head(strs) \o "," \o JoinComma(Tail(strs))

\* ResponseError.__str__: None where detail.code.value raises AttributeError
ResponseError_str(error) ==
    IF \E k \in DOMAIN error.details : IsNone(error.details[k].code)
    THEN None
    ELSE Some(error.message \o ": "
                \o JoinComma([k \in DOMAIN error.details |->
                                 Val(error.details[k].code)]))

----------------------------------------------------------------------------
(* SpecFault: parse_response applied to a fault response *)

MaxFaultEntries == 3

FaultCodes == {"v100", "s005", "v114", "x999"}

FaultMessages == {"text", "OIB iz poruke zahtjeva nije jednak OIB-u"}

FaultEntries == [SifraGreske : FaultCodes, PorukaGreske : FaultMessages]

RECURSIVE SeqsUpTo(_, _)
SeqsUpTo(S, n) ==
    IF n = 0 THEN {<<>>}
    ELSE SeqsUpTo(S, n - 1)
           \cup {Append(q, x) : q \in {r \in SeqsUpTo(S, n - 1) :
                                           Len(r) = n - 1}, x \in S}

FaultIdle ==
    /\ fault = <<>>
    /\ decoded = None
    /\ rendered = None

FaultInit ==
    /\ fault \in SeqsUpTo(FaultEntries, MaxFaultEntries)
    /\ decoded = None
    /\ rendered = None

ParseResponse ==
    /\ IsNone(decoded)
    /\ decoded' = Some(parse_response(fault))
    /\ UNCHANGED <<fault, rendered, faultOthers>>

\* str() of every decoded detail and of the ResponseError that wraps them
Stringify ==
    /\ ~IsNone(decoded)
    /\ IsNone(rendered)
    /\ rendered' =
         Some([details |-> [k \in DOMAIN Val(decoded) |->
                              ResponseErrorDetail_str(Val(decoded)[k])],
               error |-> ResponseError_str(ResponseError(Val(decoded)))])
    /\ UNCHANGED <<fault, decoded, faultOthers>>

FaultNext ==
    \/ ParseResponse
    \/ Stringify

----------------------------------------------------------------------------
(* Signer.sign_document and Verifier.verify_document *)

\* The exception e raised, nothing returned
RaiseExc(e) == [exc |-> Some(e), ret |-> None, signed |-> <<>>]

\* SignatureError, with the message verify_document gives it
SignatureError(tag) ==
    [type |-> "SignatureError",
     msg |-> "Signature verification of " \o tag \o " failed"]

\* An envelope is its Body's first child, if any: the request element with
\* its tag, its content, its Id attribute and its Signature child

\* The SHA-1 digest of the request element under the enveloped-signature
\* transform, which leaves the Signature child out
DigestOf(content) == "sha1(" \o content \o ")"

\* root.find("{soap-env}Body/*")
req_node(root) == root.body

\* xmlsec.tree.find_node(root, NodeSignature)
sig_node(root) ==
    IF IsNone(root.body) THEN None ELSE Val(root.body).Signature

\* ctx.sign(sig_node) with the signer's key: the digest of the referenced
\* element, and the signature value over the reference and that digest
xmlsec_sign(key, uri, content) ==
    [URI |-> uri, DigestValue |-> DigestOf(content),
     SignatureValue |->
         [key |-> key, URI |-> uri, DigestValue |-> DigestOf(content)]]

\* Signer.sign_document with the signer's key, on an envelope not signed
\* before: the exception raised or the envelope it leaves
sign_document(root, key) ==
    IF IsNone(req_node(root))
    THEN Raise("Unable to find request tag element", <<>>)
    ELSE LET node == Val(req_node(root))
         IN  Return(
               [root EXCEPT !.body =
                   Some([node EXCEPT
                           !.Id = Some("uuid4"),
                           !.Signature =
                               Some(xmlsec_sign(key, "#uuid4",
                                                node.content))])],
               <<>>)

\* A ctx.verify that does not compare the digest with the content
xmlsec_verify_no_digest(root, cert) ==
    LET node == Val(req_node(root))
        sig == Val(sig_node(root))
    IN  /\ ~IsNone(node.Id)
        /\ sig.URI = "#" \o Val(node.Id)
        /\ sig.SignatureValue
             = [key |-> cert, URI |-> sig.URI, DigestValue |-> sig.DigestValue]

\* ctx.verify(sig_node) with ctx.key the verifier's certificate: the
\* reference resolves to the registered Id, its digest is the DigestValue,
\* and the signature value is the key's over the reference and the digest
xmlsec_verify(root, cert) ==
    LET node == Val(req_node(root))
        sig == Val(sig_node(root))
    IN  /\ ~IsNone(node.Id)
        /\ sig.URI = "#" \o Val(node.Id)
        /\ sig.DigestValue = DigestOf(node.content)
        /\ sig.SignatureValue
             = [key |-> cert, URI |-> sig.URI, DigestValue |-> sig.DigestValue]

\* Verifier.verify_document with the verifier's certificate.  xmlsec takes
\* only an element: register_id and verify raise TypeError for None; and
\* register_id, which is outside the try, raises xmlsec.Error for an
\* element that has no Id attribute
verify_document(root, cert) ==
    IF IsNone(req_node(root))
    THEN RaiseExc([type |-> "TypeError",
                   msg |-> "lxml.etree._Element object is needed for argument 1"])
    ELSE IF IsNone(Val(req_node(root)).Id)
    THEN RaiseExc([type |-> "xmlsec.Error", msg |-> "missing attribute."])
    ELSE IF IsNone(sig_node(root))
    THEN RaiseExc([type |-> "TypeError",
                   msg |-> "lxml.etree._Element object is needed for argument 1"])
    ELSE IF xmlsec_verify(root, cert)
    THEN Return("None", <<>>)
    ELSE RaiseExc(SignatureError(Val(req_node(root)).tag))

----------------------------------------------------------------------------
(* FiskalClient and EnvelopedSignaturePlugin *)

ClientMethods ==
    {"test_service", "check_invoice", "submit_invoice",
     "change_payment_method", "submit_document"}

\* A plugin that signs and verifies every operation
requires_signature_always(name) == TRUE

\* FiskalClient.requires_signature, of operation.name
requires_signature(name) == name /= "echo"

\* FiskalClient.create_request_header at time now; the message id is uuid4()
create_request_header(now) ==
    [IdPoruke |-> "uuid4", DatumVrijeme |-> strftime_ws(now)]

\* The certificate the client's Verifier was built with: the service's
ServiceCert == "service"

\* The inbound envelope as the tree ingress hands to verify_document.  The
\* service signs the first child of Body with its key; an envelope may as
\* well arrive signed with another key, with a Body child that was never
\* signed (no Id attribute, no Signature element), with a Body child that
\* has an Id but no Signature element, or with nothing in its Body
InboundRoot(envelope) ==
    LET node == [tag |-> envelope.tag, content |-> envelope.kind,
                 Id |-> None, Signature |-> None]
        plain == [body |-> Some(node)]
        sg == envelope.signature
    IN  CASE sg = "valid" -> Val(sign_document(plain, ServiceCert).ret)
          [] sg = "invalid" -> Val(sign_document(plain, "other").ret)
          [] sg = "unsigned" -> plain
          [] sg = "no_signature" ->
                 [body |-> Some([node EXCEPT !.Id = Some("uuid4")])]
          [] sg = "empty_body" -> [body |-> None]

\* EnvelopedSignaturePlugin.egress: the Signer calls it makes
egress(operation) ==
    IF requires_signature(operation) THEN <<"sign_document">> ELSE <<>>

\* EnvelopedSignaturePlugin.ingress: the Verifier calls it makes, and None
\* when it returns the envelope or the exception that leaves it:
\* whatever verify_document raises, as ingress has no handler
ingress(envelope, operation) ==
    IF requires_signature(operation)
    THEN [calls |-> <<"verify_document">>,
          exc |-> verify_document(InboundRoot(envelope), ServiceCert).exc]
    ELSE [calls |-> <<>>, exc |-> None]

\* The operation of self.client.service each method calls
service_proxy(method, v) ==
    CASE method = "test_service" -> "echo"
      [] method = "check_invoice" -> "provjera"
      [] method = "submit_invoice" ->
             IF v = "InvoiceWithDoc" THEN "racuniPD" ELSE "racuni"
      [] method = "change_payment_method" -> "promijeniNacPlac"
      [] method = "submit_document" -> "prateciDokumenti"

\* A request built whether or not the serialization raised
request_kwargs_unchecked(method, demo, v, d, now) ==
    LET body == to_ws_object(v, d)
        key == CASE method = "check_invoice" /\ v = "InvoiceWithDoc" -> "RacunPD"
                 [] method = "submit_document" -> "PrateciDokument"
                 [] OTHER -> "Racun"
    IN  IF method = "test_service"
        THEN [calls |-> <<>>, r |-> Return("ping", <<>>)]
        ELSE [calls |-> <<"to_ws_object", "create_request_header">>,
              r |-> Return([Zaglavlje |-> create_request_header(now),
                            key |-> key, body |-> body.ret], <<>>)]

\* What a method does before it calls the service: the calls it makes in
\* order, and the request it built or the exception that ended it
request_kwargs(method, demo, v, d, now) ==
    LET body == to_ws_object(v, d)
        header == create_request_header(now)
        key == CASE method = "check_invoice" /\ v = "InvoiceWithDoc" -> "RacunPD"
                 [] method = "submit_document" -> "PrateciDokument"
                 [] OTHER -> "Racun"
        built == Return([Zaglavlje |-> header, key |-> key,
                         body |-> Val(body.ret)], <<>>)
        failed == [exc |-> body.exc, ret |-> None, signed |-> <<>>]
    IN  CASE method = "test_service" ->
               [calls |-> <<>>, r |-> Return("ping", <<>>)]
          [] method = "check_invoice" /\ ~demo ->
               [calls |-> <<>>,
                r |-> RaiseExc([type |-> "RuntimeError",
                                msg |-> "Check invoice operation is only available in demo mode"])]
          [] method \in {"check_invoice", "submit_invoice"} ->
               IF Raised(body)
               THEN [calls |-> <<"to_ws_object">>, r |-> failed]
               ELSE [calls |-> <<"to_ws_object", "create_request_header">>,
                     r |-> built]
          [] OTHER ->
               [calls |-> <<"create_request_header", "to_ws_object">>,
                r |-> IF Raised(body) THEN failed ELSE built]

\* A _call_service that answers a failed call with an empty response
_call_service_swallow(r) ==
    IF Raised(r)
    THEN Return([Jir |-> "", Racun |-> "", RacunPD |-> ""], <<>>)
    ELSE r

\* FiskalClient._call_service, given what service_proxy(**request_kwargs)
\* returned or raised.  etree.fromstring raises XMLSyntaxError for text
\* that is not XML, the empty text included, and ValueError for a detail
\* that is not text: the Fault's default detail, None
_call_service(r) ==
    IF Raised(r) /\ Val(r.exc).type = "Fault"
    THEN LET detail == Val(r.exc).detail
         IN  IF detail.kind = "absent"
             THEN RaiseExc([type |-> "ValueError",
                            msg |-> "can only parse strings"])
             ELSE IF detail.kind \in {"unparsable", "empty"}
             THEN RaiseExc(ResponseError(<<>>))
             ELSE IF detail.kind = "no_body"
             THEN RaiseExc(ResponseError(<<>>))
             ELSE RaiseExc(ResponseError(parse_response(detail.Greska)))
    ELSE r

\* What a method does with the outcome r of the service call
method_result(method, v, r) ==
    CASE method = "test_service" ->
             IF Raised(r) THEN r
             ELSE IF Val(r.ret) /= "ping"
             THEN Raise("Test echo service returned '" \o Val(r.ret)
                          \o "', expected 'ping'", <<>>)
             ELSE Return("None", <<>>)
      [] method = "check_invoice" ->
             LET response == _call_service(r)
             IN  IF Raised(response) THEN response
                 ELSE IF v = "InvoiceWithDoc"
                 THEN Return(Val(response.ret).RacunPD, <<>>)
                 ELSE Return(Val(response.ret).Racun, <<>>)
      [] method = "change_payment_method" ->
             LET response == _call_service(r)
             IN  IF Raised(response) THEN response
                 ELSE Return("None", <<>>)
      [] OTHER ->
             LET response == _call_service(r)
             IN  IF Raised(response) THEN response
                 ELSE Return(Val(response.ret).Jir, <<>>)

----------------------------------------------------------------------------
(* SpecClient: one client, one document, calls one after another *)

ClientOib == <<"1", "2", "3", "1", "2", "3", "1", "2", "3", "1", "6">>

ClientNumber == <<"1", "/", "X", "/", "1">>

\* A document of variant v with every field its serialization needs, and
\* the same document without its total
SampleDocument(v, complete) ==
    [NewDocument(datetime(2022, 1, 1, 0, 0, 0)) EXCEPT
        !.oib = OIB(ClientOib),
        !.invoice_number = InvoiceNumber(ClientNumber),
        !.total = IF complete THEN Some(to_decimal2(1000000)) ELSE None,
        !.document_jir =
            IF v = "InvoiceWithDoc"
            THEN Some("00000000000000000000000000000000") ELSE None,
        !.new_payment_method =
            IF v = "InvoicePaymentMethodChange"
            THEN Some(PaymentMethod_CASH) ELSE None,
        !.original_zki =
            IF v = "InvoicePaymentMethodChange"
            THEN Some("abcdabcdabcdabcdabcdabcdabcdabcd") ELSE None]

\* A document with its required fields that breaks its variant's own rule:
\* no reference to the accompanying document, or a new payment method
\* that is the current one
InconsistentDocuments(v) ==
    CASE v = "InvoiceWithDoc" ->
             {[SampleDocument(v, TRUE) EXCEPT !.document_jir = None]}
      [] v = "InvoicePaymentMethodChange" ->
             {[SampleDocument(v, TRUE) EXCEPT
                 !.new_payment_method = Some(PaymentMethod_OTHER)]}
      [] OTHER -> {}

ServiceJir == "jir-0001"

EchoReplies == {"ping", "pong"}

\* How the inbound envelope is signed: see InboundRoot
Signatures == {"valid", "invalid", "unsigned", "no_signature", "empty_body"}

FaultDetails ==
    {[kind |-> "unparsable", Greska |-> <<>>],
     [kind |-> "empty", Greska |-> <<>>],
     [kind |-> "absent", Greska |-> <<>>],
     [kind |-> "no_body", Greska |-> <<>>],
     [kind |-> "errors",
      Greska |-> <<[SifraGreske |-> "v100", PorukaGreske |-> "text"]>>],
     [kind |-> "errors",
      Greska |-> <<[SifraGreske |-> "s005", PorukaGreske |-> "text"],
                   [SifraGreske |-> "v100", PorukaGreske |-> "text"],
                   [SifraGreske |-> "v114", PorukaGreske |-> "text"]>>]}

\* What the service may send back for a request to operation
Replies(operation, request) ==
    LET bodies ==
            IF operation = "echo" THEN EchoReplies
            ELSE {[Jir |-> ServiceJir, Racun |-> request.body,
                   RacunPD |-> request.body]}
    IN  {[kind |-> "response", tag |-> operation \o "Odgovor",
          signature |-> sg, body |-> b] :
             sg \in Signatures, b \in bodies}
          \cup {[kind |-> "fault", tag |-> operation \o "Odgovor",
                 signature |-> sg, detail |-> dt] :
                    sg \in Signatures, dt \in FaultDetails}

ClientIdle ==
    client = [pc |-> "idle", demo |-> TRUE, method |-> "none",
              operation |-> "none", request |-> None, trace |-> <<>>,
              inbound |-> None, outcome |-> None]

ClientInit ==
    /\ variant \in Variants
    /\ doc \in {SampleDocument(variant, complete) : complete \in BOOLEAN}
                 \cup InconsistentDocuments(variant)
    /\ last = Operation("new", Return("None", <<>>))
    /\ \E demo \in BOOLEAN :
           client = [pc |-> "idle", demo |-> demo, method |-> "none",
                     operation |-> "none", request |-> None, trace |-> <<>>,
                     inbound |-> None, outcome |-> None]

\* The caller calls a method with the document, of whatever class: the
\* annotations of the parameters are not enforced.  Everything up to the
\* call of the service
Call(method, now) ==
    /\ client.pc = "idle"
    /\ \E k \in {request_kwargs(method, client.demo, variant, doc, now)} :
           client' =
             [client EXCEPT
                !.pc = IF Raised(k.r) THEN "done" ELSE "egress",
                !.method = method,
                !.operation = service_proxy(method, variant),
                !.request = k.r.ret,
                !.trace = k.calls,
                !.inbound = None,
                !.outcome = IF Raised(k.r) THEN Some(k.r) ELSE None]
    /\ UNCHANGED clientOthers

\* The transport applies the plugin's egress to the outbound envelope
Egress ==
    /\ client.pc = "egress"
    /\ client' = [client EXCEPT
                    !.pc = "send",
                    !.trace = @ \o <<"egress">> \o egress(client.operation)]
    /\ UNCHANGED clientOthers

\* The envelope is posted; the connection fails or a reply arrives
Send ==
    /\ client.pc = "send"
    /\ \/ client' =
            [client EXCEPT
               !.pc = "done",
               !.trace = @ \o <<"invoke">>,
               !.outcome =
                   Some(method_result(client.method, variant,
                            RaiseExc([type |-> "ConnectionError"])))]
       \/ \E reply \in Replies(client.operation, Val(client.request)) :
            client' = [client EXCEPT
                         !.pc = "ingress",
                         !.trace = @ \o <<"invoke">>,
                         !.inbound = Some(reply)]
    /\ UNCHANGED clientOthers

\* The transport applies the plugin's ingress to the inbound envelope,
\* before it looks for a fault in it
Ingress ==
    /\ client.pc = "ingress"
    /\ LET i == ingress(Val(client.inbound), client.operation)
       IN  client' =
             [client EXCEPT
                !.pc = IF IsNone(i.exc) THEN "reply" ELSE "done",
                !.trace = @ \o <<"ingress">> \o i.calls,
                !.outcome =
                    IF IsNone(i.exc) THEN None
                    ELSE Some(method_result(client.method, variant,
                                  RaiseExc(Val(i.exc))))]
    /\ UNCHANGED clientOthers

\* The service call returns the response or raises the Fault, and the
\* method finishes
Reply ==
    /\ client.pc = "reply"
    /\ LET reply == Val(client.inbound)
           r == IF reply.kind = "fault"
                THEN RaiseExc([type |-> "Fault", detail |-> reply.detail])
                ELSE Return(reply.body, <<>>)
       IN  client' =
             [client EXCEPT
                !.pc = "done",
                !.outcome = Some(method_result(client.method, variant, r))]
    /\ UNCHANGED clientOthers

\* The caller has the outcome, and the client is ready for another call
Finish ==
    /\ client.pc = "done"
    /\ client' = [client EXCEPT
                    !.pc = "idle", !.method = "none", !.operation = "none",
                    !.request = None, !.trace = <<>>, !.inbound = None,
                    !.outcome = None]
    /\ UNCHANGED clientOthers

ClientNext ==
    \/ \E method \in ClientMethods, now \in Clock : Call(method, now)
    \/ Egress
    \/ Send
    \/ Ingress
    \/ Reply
    \/ Finish

----------------------------------------------------------------------------
(* SpecSig: one envelope, signed, changed in transit and verified *)

SigKeys == {"client", "root_ca", "service"}

SigContents == {"<Racun>1</Racun>", "<Racun>2</Racun>", "<Racun>3</Racun>"}

SigDigests == {DigestOf(c) : c \in SigContents} \cup {"AAAA"}

SigEnvelopes ==
    {[body |-> None]}
      \cup {[body |-> Some([tag |-> "RacunZahtjev", content |-> c,
                            Id |-> None, Signature |-> None])] :
               c \in SigContents}

SigInit ==
    /\ xml \in {Some(e) : e \in SigEnvelopes}
    /\ verified = None

SignDocument(key) ==
    /\ IsNone(sig_node(Val(xml)))
    /\ LET r == sign_document(Val(xml), key)
       IN  /\ xml' = IF Raised(r) THEN xml ELSE r.ret
           /\ verified' =
                Some([op |-> "sign_document", with |-> key, exc |-> r.exc])
    /\ UNCHANGED sigOthers

\* In transit the content of the request element is replaced
ChangeContent(content) ==
    /\ ~IsNone(Val(xml).body)
    /\ content /= Val(Val(xml).body).content
    /\ xml' = Some([body |-> Some([Val(Val(xml).body) EXCEPT
                                     !.content = content])])
    /\ verified' = None
    /\ UNCHANGED sigOthers

\* In transit the DigestValue of the signature is replaced
ChangeDigest(digest) ==
    /\ ~IsNone(sig_node(Val(xml)))
    /\ digest /= Val(sig_node(Val(xml))).DigestValue
    /\ xml' = Some([body |-> Some([Val(Val(xml).body) EXCEPT
                                     !.Signature =
                                        Some([Val(@) EXCEPT
                                                !.DigestValue = digest])])])
    /\ verified' = None
    /\ UNCHANGED sigOthers

VerifyDocument(cert) ==
    /\ verified' =
         Some([op |-> "verify_document", with |-> cert,
               exc |-> verify_document(Val(xml), cert).exc])
    /\ UNCHANGED <<xml, sigOthers>>

SigNext ==
    \/ \E key \in SigKeys : SignDocument(key)
    \/ \E content \in SigContents : ChangeContent(content)
    \/ \E digest \in SigDigests : ChangeDigest(digest)
    \/ \E cert \in SigKeys : VerifyDocument(cert)

----------------------------------------------------------------------------
(* SpecThreads: threads that share one Signer and one Verifier; each runs
   one call, statement by statement, on an envelope or payload of its own *)

\* The child of SIGNATURE_FRAGMENT as parsed: no reference, no values
signature_template ==
    [URI |-> "", DigestValue |-> "", SignatureValue |-> ""]

\* The attributes the constructors of Signer and Verifier set
ThreadCrypto ==
    [signer |-> [xmlsec_key |-> "service", hazmat_key |-> "service",
                 signature_template |-> signature_template],
     verifier |-> [key |-> "service", manager |-> {"root_ca"}]]

ThreadIds == {1, 2}

ThreadPayloads == {"12312312316", "12345678903"}

\* Envelopes as a verifier meets them: unsigned, signed by this signer or
\* by another key, and signed and then changed
ThreadInbound ==
    SigEnvelopes
      \cup {Val(sign_document(e, k).ret) :
               e \in SigEnvelopes \ {[body |-> None]},
               k \in {"service", "client"}}
      \cup {[body |-> Some([Val(Val(sign_document(e, "service").ret).body)
                              EXCEPT !.content = "<Racun>9</Racun>"])] :
               e \in SigEnvelopes \ {[body |-> None]}}

ThreadCalls ==
    {[op |-> "sign_document", arg |-> e] : e \in SigEnvelopes}
      \cup {[op |-> "verify_document", arg |-> e] : e \in ThreadInbound}
      \cup {[op |-> "sign_zki_payload", arg |-> p] : p \in ThreadPayloads}

\* A Reference URI written into the instance's template as well
set_reference_shared(signer, sig, uri) ==
    [signer |-> [signer EXCEPT !.signature_template.URI = uri],
     sig |-> [sig EXCEPT !.URI = uri]]

\* ref_node.attrib["URI"] = ...: the node is in the copy of the template
\* that was appended to the request, so the instance keeps its template
set_reference(signer, sig, uri) ==
    [signer |-> signer, sig |-> [sig EXCEPT !.URI = uri]]

\* Some other thread is between two statements of its call
Overlaps(t) ==
    \E u \in ThreadIds \ {t} : threads[u].pc \notin {"start", "done"}

Step(t, pc, root, outcome) ==
    threads' = [threads EXCEPT ![t] =
                  [@ EXCEPT !.pc = pc, !.root = root, !.outcome = outcome,
                            !.overlapped = @ \/ Overlaps(t)]]

ThreadsInit ==
    /\ crypto = ThreadCrypto
    /\ \E calls \in [ThreadIds -> ThreadCalls] :
         threads = [t \in ThreadIds |->
                      [op |-> calls[t].op, arg |-> calls[t].arg,
                       pc |-> "start", root |-> calls[t].arg,
                       outcome |-> None, overlapped |-> FALSE]]

\* sign_document up to req_node.append(deepcopy(self.signature_template))
SignAppend(t) ==
    /\ threads[t].op = "sign_document"
    /\ threads[t].pc = "start"
    /\ LET root == threads[t].root
       IN  IF IsNone(req_node(root))
           THEN Step(t, "done", root,
                     Some(Raise("Unable to find request tag element", <<>>)))
           ELSE Step(t, "appended",
                     [body |->
                        Some([Val(req_node(root)) EXCEPT
                                !.Id = Some("uuid4"),
                                !.Signature =
                                    Some(crypto.signer.signature_template)])],
                     None)
    /\ UNCHANGED <<crypto, threadOthers>>

\* sign_document from find_node to the KeyInfo added to the signature
SignReference(t) ==
    /\ threads[t].op = "sign_document"
    /\ threads[t].pc = "appended"
    /\ LET root == threads[t].root
           r == set_reference(crypto.signer, Val(sig_node(root)), "#uuid4")
       IN  /\ crypto' = [crypto EXCEPT !.signer = r.signer]
           /\ Step(t, "referenced",
                   [body |-> Some([Val(req_node(root)) EXCEPT
                                     !.Signature = Some(r.sig)])],
                   None)
    /\ UNCHANGED threadOthers

\* sign_document from the new SignatureContext to ctx.sign(sig_node)
SignSign(t) ==
    /\ threads[t].op = "sign_document"
    /\ threads[t].pc = "referenced"
    /\ LET root == threads[t].root
           node == Val(req_node(root))
       IN  Step(t, "done",
                [body |-> Some([node EXCEPT
                                  !.Signature =
                                      Some(xmlsec_sign(
                                               crypto.signer.xmlsec_key,
                                               Val(node.Signature).URI,
                                               node.content))])],
                Some(Return("None", <<>>)))
    /\ UNCHANGED <<crypto, threadOthers>>

\* verify_document up to ctx.register_id(req_node, "Id")
VerifyRegister(t) ==
    /\ threads[t].op = "verify_document"
    /\ threads[t].pc = "start"
    /\ LET root == threads[t].root
       IN  IF IsNone(req_node(root))
           THEN Step(t, "done", root,
                     Some(RaiseExc(
                         [type |-> "TypeError",
                          msg |-> "lxml.etree._Element object is needed for argument 1"])))
           ELSE IF IsNone(Val(req_node(root)).Id)
           THEN Step(t, "done", root,
                     Some(RaiseExc([type |-> "xmlsec.Error",
                                    msg |-> "missing attribute."])))
           ELSE Step(t, "registered", root, None)
    /\ UNCHANGED <<crypto, threadOthers>>

\* verify_document from find_node to ctx.verify(sig_node)
VerifyVerify(t) ==
    /\ threads[t].op = "verify_document"
    /\ threads[t].pc = "registered"
    /\ LET root == threads[t].root
       IN  Step(t, "done", root,
                Some(IF IsNone(sig_node(root))
                     THEN RaiseExc(
                              [type |-> "TypeError",
                               msg |-> "lxml.etree._Element object is needed for argument 1"])
                     ELSE IF xmlsec_verify(root, crypto.verifier.key)
                     THEN Return("None", <<>>)
                     ELSE RaiseExc(SignatureError(Val(req_node(root)).tag))))
    /\ UNCHANGED <<crypto, threadOthers>>

\* sign_zki_payload: the key signs, md5 digests
SignZkiPayload(t) ==
    /\ threads[t].op = "sign_zki_payload"
    /\ threads[t].pc = "start"
    /\ Step(t, "done", threads[t].root,
            Some(Return(sign_zki_payload(threads[t].arg), <<>>)))
    /\ UNCHANGED <<crypto, threadOthers>>

ThreadsNext ==
    \/ \E t \in ThreadIds : SignAppend(t)
    \/ \E t \in ThreadIds : SignReference(t)
    \/ \E t \in ThreadIds : SignSign(t)
    \/ \E t \in ThreadIds : VerifyRegister(t)
    \/ \E t \in ThreadIds : VerifyVerify(t)
    \/ \E t \in ThreadIds : SignZkiPayload(t)

----------------------------------------------------------------------------
(* SpecStamp: a document and a clock that moves with every operation: the
   issued_at property read, assigned and reset, and the document
   serialized *)

MaxStampOps == 4

\* datetime.now() at the k-th tick
StampClock(k) == datetime(2022, 1, 1, 0, 0, k)

StampInputs == {datetime(2021, 12, 31, 23, 59, 59), datetime(2022, 7, 1, 0, 0, 0)}

StampKwargs(v, with_issued_at) ==
    IF with_issued_at
    THEN FieldKwargs(v, "required")
           @@ [issued_at |-> datetime(2021, 12, 31, 23, 59, 59)]
    ELSE FieldKwargs(v, "required")

\* What happened last and when; the instant the document's timestamp was
\* fixed to; what the latest read and the latest serialization gave since
\* the timestamp was last assigned or reset
StampInit ==
    /\ variant \in Variants
    /\ \E with_issued_at \in BOOLEAN :
            LET kwargs == StampKwargs(variant, with_issued_at)
                r == BaseDocument_init(Properties(variant), kwargs,
                                       NewDocument(StampClock(0)),
                                       StampClock(0))
            IN  /\ ~Raised(r)
                /\ doc = Val(r.ret)
                /\ last =
                     [op |-> "new", at |-> 0, exc |-> None,
                      ret |-> Some("None"), signed |-> <<>>,
                      fixed |-> IF with_issued_at THEN kwargs.issued_at
                                ELSE StampClock(0),
                      fixed_by |-> IF with_issued_at THEN "set" ELSE "new",
                      fixed_at |-> 0,
                      read |-> None, serialized |-> None]

\* doc.issued_at
GetIssuedAt ==
    /\ last.at < MaxStampOps
    /\ last' = [last EXCEPT !.op = "get", !.at = @ + 1, !.exc = None,
                            !.ret = Some(fget("issued_at", doc)),
                            !.signed = <<>>,
                            !.read = IF last.op = "get" THEN last.ret ELSE @,
                            !.serialized =
                                IF last.op = "to_ws_object" /\ IsNone(last.exc)
                                THEN Some([ret |-> Val(last.ret),
                                           signed |-> last.signed])
                                ELSE @]
    /\ UNCHANGED <<variant, doc, docOthers>>

\* doc.issued_at = value
SetIssuedAt(value) ==
    /\ last.at < MaxStampOps
    /\ doc' = Val(fset("issued_at", doc, value).ret)
    /\ last' = [op |-> "set", at |-> last.at + 1, exc |-> None,
                ret |-> Some("None"), signed |-> <<>>, fixed |-> value,
                fixed_by |-> "set", fixed_at |-> last.at + 1,
                read |-> None, serialized |-> None]
    /\ UNCHANGED <<variant, docOthers>>

\* del doc.issued_at
DelIssuedAt ==
    /\ last.at < MaxStampOps
    /\ doc' = fdel("issued_at", doc, StampClock(last.at + 1))
    /\ last' = [op |-> "del", at |-> last.at + 1, exc |-> None,
                ret |-> Some("None"), signed |-> <<>>,
                fixed |-> StampClock(last.at + 1),
                fixed_by |-> "del", fixed_at |-> last.at + 1,
                read |-> None, serialized |-> None]
    /\ UNCHANGED <<variant, docOthers>>

\* doc.to_ws_object()
SerializeStamped ==
    /\ last.at < MaxStampOps
    /\ LET r == to_ws_object(variant, doc)
       IN  last' = [last EXCEPT !.op = "to_ws_object", !.at = @ + 1,
                                !.exc = r.exc, !.ret = r.ret,
                                !.signed = r.signed,
                                !.read = IF last.op = "get" THEN last.ret
                                         ELSE @,
                                !.serialized =
                                    IF last.op = "to_ws_object"
                                         /\ IsNone(last.exc)
                                    THEN Some([ret |-> Val(last.ret),
                                               signed |-> last.signed])
                                    ELSE @]
    /\ UNCHANGED <<variant, doc, docOthers>>

StampNext ==
    \/ GetIssuedAt
    \/ \E value \in StampInputs : SetIssuedAt(value)
    \/ DelIssuedAt
    \/ SerializeStamped

----------------------------------------------------------------------------
(* SpecNumberEq: InvoiceNumber(left) == other, for another InvoiceNumber
   and for a plain string *)

\* InvoiceNumber.__eq__
InvoiceNumber_eq(self, other) ==
    /\ other.cls = "InvoiceNumber"
    /\ self.invoice_number = other.value.invoice_number

EqTexts ==
    {<<"1", "/", "X", "/", "1">>, <<"0", "1", "/", "X", "/", "1">>,
     <<"1", "/", "X", "/", "0", "1">>, <<"0", "0", "1", "/", "X", "/", "1">>,
     <<"1", "/", "x", "/", "1">>, <<"1", "/", "X", "/", "2">>,
     <<"2", "/", "V", "P", "1", "/", "1">>, <<"1", "0", "/", "X", "/", "1">>,
     <<"1", "/", "0", "X", "/", "1">>, <<"1", "1", "/", "X", "/", "1">>,
     <<"1", "/", "X", "/", "1", "1">>, <<"1", "/", "X", "1", "/", "1">>}

\* The right-hand side of the comparison: InvoiceNumber(text) or the text
EqOthers ==
    {[cls |-> "InvoiceNumber", value |-> Val(InvoiceNumber(cs))] :
        cs \in EqTexts}
      \cup {[cls |-> "str", value |-> [text |-> Join(cs)]] : cs \in EqTexts}

NumberEqInit ==
    /\ input \in {Some([self |-> Val(InvoiceNumber(cs)), other |-> o]) :
                     cs \in EqTexts, o \in EqOthers}
    /\ output = None

\* self == other
CompareInvoiceNumbers ==
    /\ IsNone(output)
    /\ output' = Some([eq |-> InvoiceNumber_eq(Val(input).self,
                                               Val(input).other)])
    /\ UNCHANGED <<input, pureOthers>>

NumberEqNext == CompareInvoiceNumbers

----------------------------------------------------------------------------
(* SpecZkiText: sign_zki_payload called twice by one Signer with one
   payload, each call with the random bytes the system gives it, and
   ZKI(text) for one text *)

HexDigits ==
    <<"0", "1", "2", "3", "4", "5", "6", "7", "8", "9",
      "a", "b", "c", "d", "e", "f">>

HexDigitsUpper ==
    <<"0", "1", "2", "3", "4", "5", "6", "7", "8", "9",
      "A", "B", "C", "D", "E", "F">>

\* A hexdigest in capital letters
hexdigest_upper(bytes) ==
    [i \in 1..(2 * Len(bytes)) |->
        IF i % 2 = 1 THEN HexDigitsUpper[(bytes[(i + 1) \div 2] \div 16) + 1]
        ELSE HexDigitsUpper[(bytes[i \div 2] % 16) + 1]]

\* hashlib's hexdigest(): two lowercase hexadecimal digits per byte
hexdigest(bytes) ==
    [i \in 1..(2 * Len(bytes)) |->
        IF i % 2 = 1 THEN HexDigits[(bytes[(i + 1) \div 2] \div 16) + 1]
        ELSE HexDigits[(bytes[i \div 2] % 16) + 1]]

\* The private keys a Signer may hold
ZkiKeys == <<"client", "other">>

\* Payloads as ZKI.calculate builds them
ZkiPayloads ==
    <<"1234567890101.01.2022 00:00:001X1100.00",
      "1234567890101.01.2022 00:00:002X1100.00",
      "1234567890131.12.2022 23:59:591X13141.59">>

\* What os.urandom may give a call that asks for random bytes
OsRandom == {0, 1, 2}

\* hashes.SHA1() of the encoded payload
hashes_SHA1(data) == "sha1(" \o data \o ")"

\* An encoding with a random salt, as padding.PSS makes it
emsa_pss(hash, rnd) == [scheme |-> "PSS", hash |-> hash, salt |-> rnd]

\* padding.PKCS1v15(): the encoded message is 00 01 FF ... FF 00 and the
\* DigestInfo of the hash; the random bytes at hand are not used
emsa_pkcs1_v15(hash, rnd) == [scheme |-> "PKCS1v15", hash |-> hash, salt |-> 0]

\* self.hazmat_key.sign(data.encode("utf-8"), padding.PKCS1v15(),
\* hashes.SHA1()): the RSA private-key operation, a function of the key
\* and the encoded message
hazmat_key_sign(key, data, rnd) ==
    [key |-> key, em |-> emsa_pkcs1_v15(hashes_SHA1(data), rnd)]

\* md5(signature).digest(): sixteen bytes, a function of the signature.
\* The bytes stand in for md5's: they differ whenever the key, the hash,
\* the scheme or the salt of the signatures here differ
md5(signature) ==
    LET k == CHOOSE i \in DOMAIN ZkiKeys : ZkiKeys[i] = signature.key
        h == CHOOSE i \in DOMAIN ZkiPayloads :
                 hashes_SHA1(ZkiPayloads[i]) = signature.em.hash
        p == IF signature.em.scheme = "PSS" THEN 1 ELSE 0
        n == ((k * 4 + h) * 2 + p) * 3 + signature.em.salt
    IN  [i \in 1..16 |-> (n * 37 + i * (2 * n + 1) * 17) % 256]

\* Signer.sign_zki_payload of a Signer whose hazmat_key is key, in a call
\* to which the system would give the random bytes rnd
Signer_sign_zki_payload(key, data, rnd) ==
    hexdigest(md5(hazmat_key_sign(key, data, rnd)))

\* Sixteen-byte digests, from which the texts below are rendered
ZkiDigests ==
    {[i \in 1..16 |-> 0], [i \in 1..16 |-> 255], [i \in 1..16 |-> 171],
     [i \in 1..16 |-> (i * 17) % 256], [i \in 1..16 |-> 160 + i],
     [i \in 1..16 |-> (i * 37 + 9) % 256]}

\* Texts of 32 lowercase hexadecimal digits, the same with one character
\* replaced, and texts that are shorter or longer
ZkiTexts ==
    {hexdigest(b) : b \in ZkiDigests}
      \cup {[hexdigest(b) EXCEPT ![i] = c] :
               b \in ZkiDigests, i \in {1, 16, 32},
               c \in {"A", "F", "g", "x", " ", "U+0666", "-"}}
      \cup {SubSeq(hexdigest(b), 1, 31) : b \in ZkiDigests}
      \cup {hexdigest(b) \o <<c>> : b \in ZkiDigests, c \in {"0", "\n"}}
      \cup {<<>>, <<"1", "2", "3">>}

ZkiTextInit ==
    /\ input \in {Some([key |-> ZkiKeys[k], data |-> ZkiPayloads[p]]) :
                      k \in DOMAIN ZkiKeys, p \in DOMAIN ZkiPayloads}
                   \cup {Some([text |-> cs]) : cs \in ZkiTexts}
    /\ output = None

\* One call of sign_zki_payload with the payload, the first or the second
\* by the same Signer, and ZKI(...) of what it returned, as ZKI.calculate
\* wraps it
CallSignZkiPayload(rnd) ==
    /\ "data" \in DOMAIN Val(input)
    /\ LET before == IF IsNone(output) THEN <<>> ELSE Val(output).calls
           text == Signer_sign_zki_payload(Val(input).key, Val(input).data,
                                           rnd)
       IN  /\ Len(before) < 2
           /\ output' = Some([calls |->
                                 Append(before, [rnd |-> rnd, text |-> text,
                                                 zki |-> ZKI(text)])])
    /\ UNCHANGED <<input, pureOthers>>

\* ZKI(text): the value held, or the ValueError
ConstructZki ==
    /\ IsNone(output)
    /\ "text" \in DOMAIN Val(input)
    /\ output' =
         Some(IF IsNone(ZKI(Val(input).text))
              THEN Raise("Incorrect ZKI format: " \o Join(Val(input).text),
                         <<>>)
              ELSE Return(Val(ZKI(Val(input).text)), <<>>))
    /\ UNCHANGED <<input, pureOthers>>

ZkiTextNext ==
    \/ \E rnd \in OsRandom : CallSignZkiPayload(rnd)
    \/ ConstructZki

----------------------------------------------------------------------------
(* SpecOib: OIB(text) for one text *)

OibFirst == {"1", "7", "U+0661", "a"}

OibSecond == {"2", "0"}

OibMiddle == <<"3", "1", "2", "3", "1", "2", "3", "1">>

OibLast == DigitChars \cup {"U+0666", "x"}

\* Texts of eleven characters, and texts that are shorter or longer
OibTexts ==
    {<<a, b>> \o OibMiddle \o <<z>> :
        a \in OibFirst, b \in OibSecond, z \in OibLast}
      \cup {<<>>, <<"1", "2", "3">>,
            <<"1", "2">> \o OibMiddle,
            <<"1", "2">> \o OibMiddle \o <<"6", "0">>}

OibInit ==
    /\ input \in {Some(cs) : cs \in OibTexts}
    /\ output = None

\* OIB(text): the value held, or the ValueError
ConstructOib ==
    /\ IsNone(output)
    /\ output' =
         Some(IF IsNone(OIB_verify(Val(input)))
              THEN Return(Val(OIB(Val(input))), <<>>)
              ELSE Raise(Val(OIB_verify(Val(input))), <<>>))
    /\ UNCHANGED <<input, pureOthers>>

OibNext == ConstructOib

----------------------------------------------------------------------------
(* SpecNumber: InvoiceNumber(text) for one text, and again for its str() *)

NumberSequences ==
    {<<"1">>, <<"0", "1">>, <<"1", "0", "0", "1">>, <<"U+0661">>, <<"a">>,
     <<>>}

NumberLocations ==
    {<<"X">>, <<"V", "P", "1">>, <<"4", "2">>, <<"A", " ", "B">>,
     <<"U+0661">>, <<"1", "/", "1">>, <<>>}

NumberDevices ==
    {<<"1">>, <<"9">>, <<"0", "0", "7">>, <<"U+FF16">>, <<"x">>, <<>>}

NumberTexts ==
    {sq \o <<"/">> \o loc \o <<"/">> \o dev :
        sq \in NumberSequences, loc \in NumberLocations,
        dev \in NumberDevices}
      \cup {<<"1", "2", "3">>, <<"1", "/", "X">>}

NumberInit ==
    /\ input \in {Some(cs) : cs \in NumberTexts}
    /\ output = None

\* n = InvoiceNumber(text)
ConstructInvoiceNumber ==
    /\ IsNone(output)
    /\ output' = Some([made |-> InvoiceNumber(Val(input)), again |-> None])
    /\ UNCHANGED <<input, pureOthers>>

\* InvoiceNumber(str(n))
ReconstructInvoiceNumber ==
    /\ ~IsNone(output)
    /\ ~IsNone(Val(output).made)
    /\ IsNone(Val(output).again)
    /\ output' =
         Some([Val(output) EXCEPT
                 !.again = Some(InvoiceNumber(
                               InvoiceNumber_text(Val(Val(output).made))))])
    /\ UNCHANGED <<input, pureOthers>>

NumberNext ==
    \/ ConstructInvoiceNumber
    \/ ReconstructInvoiceNumber

----------------------------------------------------------------------------
(* SpecTax: TaxItem(base, rate, amount), and again from its stored values *)

\* Arguments in ten-thousandths: 100, 0.10, 0.30, 0.50, 100.005, -100, 0.02,
\* -0.02
TaxBases == {1000000, 1000, 3000, 5000, 1000050, -1000000, 200, -200}

\* 25, 20, 25.004, 12.5, 5
TaxRates == {250000, 200000, 250040, 125000, 50000}

\* 25, 30, 20, 0.02, 0.03, 0.08, 0.07, 0.12, 0.13, 0, -25, 25.004, 12.5
TaxAmounts ==
    {250000, 300000, 200000, 200, 300, 800, 700, 1200, 1300, 0, -250000,
     250040, 125000}

TaxInit ==
    /\ input \in {Some(<<b, r, a>>) :
                     b \in TaxBases, r \in TaxRates, a \in TaxAmounts}
    /\ output = None

\* t = TaxItem(base, rate, amount)
ConstructTaxItem ==
    /\ IsNone(output)
    /\ output' =
         Some([made |-> TaxItem(Val(input)[1], Val(input)[2], Val(input)[3]),
               again |-> None])
    /\ UNCHANGED <<input, pureOthers>>

\* TaxItem(t.base, t.rate, t.amount): to_decimal2 of a Decimal of two
\* places is that Decimal
ReconstructTaxItem ==
    /\ ~IsNone(output)
    /\ ~Raised(Val(output).made)
    /\ IsNone(Val(output).again)
    /\ LET t == Val(Val(output).made.ret)
       IN  output' =
             Some([Val(output) EXCEPT
                     !.again = Some(TaxItem_check(t.base, t.rate,
                                                  t.amount))])
    /\ UNCHANGED <<input, pureOthers>>

TaxNext ==
    \/ ConstructTaxItem
    \/ ReconstructTaxItem

----------------------------------------------------------------------------
(* SpecZki: ZKI.calculate applied to two argument tuples *)

ZkiOibs == {"12312312316", "12345678903"}

ZkiDatetimes ==
    {datetime(2022, 1, 1, 0, 0, 5), datetime(2022, 1, 1, 0, 0, 6),
     datetime(2022, 11, 21, 15, 30, 0)}

ZkiNumberTexts ==
    {<<"1", "/", "X", "/", "1">>,
     <<"0", "1", "/", "X", "/", "1">>,
     <<"1", "/", "1", "X", "/", "1">>,
     <<"1", "1", "/", "X", "/", "1">>,
     <<"1", "/", "X", "/", "1", "1">>}

ZkiInvoiceNumbers == {Val(InvoiceNumber(cs)) : cs \in ZkiNumberTexts}

ZkiAmounts ==
    {Decimal2(0, 100), Decimal2(0, 1100), Decimal2(0, 10000)}

ZkiArgTuples ==
    [oib : ZkiOibs, dt : ZkiDatetimes, invoice_number : ZkiInvoiceNumbers,
     amount : ZkiAmounts]

ZkiCalls == {1, 2}

ZkiInit ==
    /\ zkiArgs \in [ZkiCalls -> ZkiArgTuples]
    /\ zkiSigned = [i \in ZkiCalls |-> <<>>]
    /\ zkiResult = [i \in ZkiCalls |-> None]

\* One call of ZKI.calculate with a recording signer
ZkiCalculate(i) ==
    /\ IsNone(zkiResult[i])
    /\ LET a == zkiArgs[i]
           r == ZKI_calculate(a.oib, a.dt, a.invoice_number, a.amount)
       IN  /\ zkiSigned' = [zkiSigned EXCEPT ![i] = @ \o r.signed]
           /\ zkiResult' = [zkiResult EXCEPT ![i] = Some(r.zki)]
    /\ UNCHANGED <<zkiArgs, zkiOthers>>

ZkiIdle ==
    /\ zkiArgs = <<>>
    /\ zkiSigned = <<>>
    /\ zkiResult = <<>>

ZkiNext == \E i \in ZkiCalls : ZkiCalculate(i)

InitZki ==
    ZkiInit /\ DocIdle /\ ClientIdle /\ FaultIdle /\ PureIdle /\ SigIdle
        /\ ThreadIdle

SpecZki == InitZki /\ [][ZkiNext]_vars

InitDoc ==
    DocInit /\ ZkiIdle /\ ClientIdle /\ FaultIdle /\ PureIdle /\ SigIdle
        /\ ThreadIdle

SpecDoc ==
    InitDoc /\ [][DocNext]_vars

InitClient ==
    ClientInit /\ ZkiIdle /\ FaultIdle /\ PureIdle /\ SigIdle /\ ThreadIdle

SpecClient == InitClient /\ [][ClientNext]_vars

InitFault ==
    FaultInit /\ ZkiIdle /\ DocIdle /\ ClientIdle /\ PureIdle /\ SigIdle
        /\ ThreadIdle

InitSig ==
    SigInit /\ ZkiIdle /\ DocIdle /\ ClientIdle /\ FaultIdle /\ PureIdle
        /\ ThreadIdle

InitOib ==
    OibInit /\ ZkiIdle /\ DocIdle /\ ClientIdle /\ FaultIdle /\ SigIdle
        /\ ThreadIdle

InitNumber ==
    NumberInit /\ ZkiIdle /\ DocIdle /\ ClientIdle /\ FaultIdle /\ SigIdle
        /\ ThreadIdle

InitTax ==
    TaxInit /\ ZkiIdle /\ DocIdle /\ ClientIdle /\ FaultIdle /\ SigIdle
        /\ ThreadIdle

InitField ==
    FieldInit /\ ZkiIdle /\ ClientIdle /\ FaultIdle /\ PureIdle /\ SigIdle
        /\ ThreadIdle

SpecFault == InitFault /\ [][FaultNext]_vars

SpecSig == InitSig /\ [][SigNext]_vars

SpecOib == InitOib /\ [][OibNext]_vars

SpecNumber == InitNumber /\ [][NumberNext]_vars

SpecTax == InitTax /\ [][TaxNext]_vars

SpecField == InitField /\ [][FieldNext]_vars

InitQr ==
    QrInit /\ ZkiIdle /\ ClientIdle /\ FaultIdle /\ PureIdle /\ SigIdle
        /\ ThreadIdle

SpecQr == InitQr /\ [][QrNext]_vars

InitThreads ==
    ThreadsInit /\ ZkiIdle /\ DocIdle /\ ClientIdle /\ FaultIdle /\ PureIdle
        /\ SigIdle

SpecThreads == InitThreads /\ [][ThreadsNext]_vars

InitZkiText ==
    ZkiTextInit /\ ZkiIdle /\ DocIdle /\ ClientIdle /\ FaultIdle /\ SigIdle
        /\ ThreadIdle

SpecZkiText == InitZkiText /\ [][ZkiTextNext]_vars

InitStamp ==
    StampInit /\ ZkiIdle /\ ClientIdle /\ FaultIdle /\ PureIdle /\ SigIdle
        /\ ThreadIdle

SpecStamp == InitStamp /\ [][StampNext]_vars

InitNumberEq ==
    NumberEqInit /\ ZkiIdle /\ DocIdle /\ ClientIdle /\ FaultIdle /\ SigIdle
        /\ ThreadIdle

SpecNumberEq == InitNumberEq /\ [][NumberEqNext]_vars

ZkiCalled(i) == ~IsNone(zkiResult[i])

\* The payload the claim describes, with the given text between date and time
ZkiExpected(a, sep) ==
    a.oib
        \o Pad2(a.dt.day) \o "." \o Pad2(a.dt.month) \o "."
        \o IntToStr(a.dt.year)
        \o sep
        \o Pad2(a.dt.hour) \o ":" \o Pad2(a.dt.minute) \o ":"
        \o Pad2(a.dt.second)
        \o IntToStr(a.invoice_number.sequence_number)
        \o a.invoice_number.location_code
        \o IntToStr(a.invoice_number.device_number)
        \o DecimalStr(a.amount)

\* C1 as stated: the signer receives exactly identity, DD.MM.YYYYTHH:MM:SS
\* with a literal T, sequence number, location code, device number and the
\* 2-decimal total, concatenated without separators.
C1_PayloadWithT ==
    \A i \in ZkiCalls :
        ZkiCalled(i) => zkiSigned[i] = <<ZkiExpected(zkiArgs[i], "T")>>

\* C1 amended: the signer receives exactly that concatenation with the
\* timestamp formatted as DD.MM.YYYY HH:MM:SS, a single space between date
\* and time.
C1_PayloadWithSpace ==
    \A i \in ZkiCalls :
        ZkiCalled(i) => zkiSigned[i] = <<ZkiExpected(zkiArgs[i], " ")>>

C1_Witness ==
    /\ ZkiCalled(1)
    /\ zkiArgs[1].dt = datetime(2022, 1, 1, 0, 0, 5)
    /\ zkiSigned[1] = <<"1231231231601.01.2022 00:00:0511X1100.00">>

ZkiFields ==
    {"oib", "dt", "sequence_number", "location_code", "device_number",
     "amount"}

ZkiField(a, f) ==
    CASE f = "oib" -> <<a.oib>>
      [] f = "dt" -> <<a.dt>>
      [] f = "sequence_number" -> <<a.invoice_number.sequence_number>>
      [] f = "location_code" -> <<a.invoice_number.location_code>>
      [] f = "device_number" -> <<a.invoice_number.device_number>>
      [] f = "amount" -> <<a.amount>>

ZkiDiffering(a, b) == {f \in ZkiFields : ZkiField(a, f) /= ZkiField(b, f)}

\* C2 as stated: two calls whose inputs differ in at least one of identity
\* code, timestamp, sequence number, location code, device number or total
\* hand different payloads to the signer.
C2_AnyDifferenceChangesPayload ==
    (ZkiCalled(1) /\ ZkiCalled(2)
        /\ ZkiDiffering(zkiArgs[1], zkiArgs[2]) /= {})
    => zkiSigned[1] /= zkiSigned[2]

\* C2 amended: two calls whose inputs differ in exactly one of the six
\* fields hand different payloads to the signer.
C2_OneDifferenceChangesPayload ==
    (ZkiCalled(1) /\ ZkiCalled(2)
        /\ Cardinality(ZkiDiffering(zkiArgs[1], zkiArgs[2])) = 1)
    => zkiSigned[1] /= zkiSigned[2]

C2_Witness ==
    /\ ZkiCalled(1) /\ ZkiCalled(2)
    /\ ZkiDiffering(zkiArgs[1], zkiArgs[2]) = {"device_number"}
    /\ zkiSigned[1] /= zkiSigned[2]

----------------------------------------------------------------------------
(* Claims about serialization, under SpecDoc *)

Serialized == last.op = "to_ws_object"

BasePresent ==
    ~IsNone(doc.oib) /\ ~IsNone(doc.invoice_number) /\ ~IsNone(doc.total)

RaisedValueError == Raised(last) /\ Val(last.exc).type = "ValueError"

\* C3: in every variant, to_ws_object or calculate_zki on a document whose
\* oib, invoice_number or total is unset raises ValueError, returns no
\* object and never calls the signer; an object that is returned carries
\* all three.
C3_RequiredFields ==
    /\ (last.op \in {"to_ws_object", "calculate_zki"} /\ ~BasePresent)
        => (RaisedValueError /\ IsNone(last.ret) /\ last.signed = <<>>)
    /\ (Serialized /\ ~Raised(last))
        => (/\ ~IsNone(Val(last.ret).Oib)
            /\ ~IsNone(Val(last.ret).IznosUkupno)
            /\ BasePresent)

C3_Witness ==
    /\ variant = "InvoicePaymentMethodChange"
    /\ Serialized
    /\ ~IsNone(doc.original_zki)
    /\ doc.new_payment_method = Some(PaymentMethod_CARD)
    /\ doc.payment_method = PaymentMethod_CASH
    /\ ~IsNone(doc.oib) /\ ~IsNone(doc.invoice_number) /\ IsNone(doc.total)
    /\ RaisedValueError
    /\ Val(last.exc).msg = "Total invoice amount is required"
    /\ last.signed = <<>>

DocRefsSet == {f \in {"document_jir", "document_zki"} : ~IsNone(doc[f])}

\* C4 as stated: InvoiceWithDoc.to_ws_object fails when neither
\* document_jir nor document_zki is set and also when both are set.
C4_NeitherOrBothFails ==
    (variant = "InvoiceWithDoc" /\ Serialized
        /\ Cardinality(DocRefsSet) \in {0, 2})
    => Raised(last)

\* C4 amended: InvoiceWithDoc.to_ws_object fails when neither is set; when
\* both are set and the base fields are present it succeeds and emits one
\* entry, JirPD with the reference id (ZastKodPD when the reference id is
\* the empty string).
C4_NeitherFailsBothSucceeds ==
    (variant = "InvoiceWithDoc" /\ Serialized)
    => /\ DocRefsSet = {} => RaisedValueError
       /\ (Cardinality(DocRefsSet) = 2 /\ BasePresent)
           => /\ ~Raised(last)
              /\ Val(last.ret).PrateciDokument =
                    IF Val(doc.document_jir) /= ""
                    THEN <<[JirPD |-> Val(doc.document_jir)]>>
                    ELSE <<[ZastKodPD |-> Val(doc.document_zki)]>>

C4_Witness ==
    /\ variant = "InvoiceWithDoc" /\ Serialized /\ BasePresent
    /\ doc.document_jir = Some("00000000000000000000000000000000")
    /\ doc.document_zki = Some("abcdabcdabcdabcdabcdabcdabcdabcd")
    /\ ~Raised(last)
    /\ Val(last.ret).PrateciDokument =
           <<[JirPD |-> "00000000000000000000000000000000"]>>

DocRefEntry ==
    IF ~IsNone(doc.document_jir)
    THEN <<[JirPD |-> Val(doc.document_jir)]>>
    ELSE <<[ZastKodPD |-> Val(doc.document_zki)]>>

\* C5 as stated: with exactly one of document_jir and document_zki set and
\* the base fields present, InvoiceWithDoc.to_ws_object succeeds and
\* PrateciDokument holds exactly the one entry for the field that is set.
C5_ExactlyOneSetSucceeds ==
    (variant = "InvoiceWithDoc" /\ Serialized /\ BasePresent
        /\ Cardinality(DocRefsSet) = 1)
    => (~Raised(last) /\ Val(last.ret).PrateciDokument = DocRefEntry)

\* C5 amended: the same, for a field set to a non-empty value.
C5_ExactlyOneNonEmptySucceeds ==
    (variant = "InvoiceWithDoc" /\ Serialized /\ BasePresent
        /\ Cardinality(DocRefsSet) = 1
        /\ doc.document_jir /= Some(""))
    => (~Raised(last) /\ Val(last.ret).PrateciDokument = DocRefEntry)

C5_Witness ==
    /\ variant = "InvoiceWithDoc" /\ Serialized /\ BasePresent
    /\ IsNone(doc.document_jir)
    /\ doc.document_zki = Some("abcdabcdabcdabcdabcdabcdabcdabcd")
    /\ ~Raised(last)
    /\ Val(last.ret).PrateciDokument =
           <<[ZastKodPD |-> "abcdabcdabcdabcdabcdabcdabcdabcd"]>>

\* C6 as stated: InvoicePaymentMethodChange.to_ws_object fails whenever
\* new_payment_method equals payment_method, the default OTHER included;
\* when they differ and original_zki and the base fields are set it
\* succeeds and emits PromijenjeniNacinPlac = new_payment_method.
C6_SameMethodFails ==
    (variant = "InvoicePaymentMethodChange" /\ Serialized
        /\ ~IsNone(doc.new_payment_method))
    => /\ Val(doc.new_payment_method) = doc.payment_method
           => RaisedValueError
       /\ (/\ Val(doc.new_payment_method) /= doc.payment_method
           /\ ~IsNone(doc.original_zki)
           /\ BasePresent)
           => /\ ~Raised(last)
              /\ Val(last.ret).PromijenjeniNacinPlac =
                     Val(doc.new_payment_method)

\* C6 amended: the same, where "set" for original_zki and for
\* new_payment_method means set to a value that is true in a test: the
\* call fails whenever new_payment_method equals payment_method, and
\* succeeds with PromijenjeniNacinPlac = new_payment_method when they
\* differ, neither original_zki nor new_payment_method is None or empty,
\* and the base fields are set.
C6_SameMethodFailsNonEmptySucceeds ==
    (variant = "InvoicePaymentMethodChange" /\ Serialized
        /\ ~IsNone(doc.new_payment_method))
    => /\ Val(doc.new_payment_method) = doc.payment_method
           => RaisedValueError
       /\ (/\ Val(doc.new_payment_method) /= doc.payment_method
           /\ Truthy(doc.original_zki)
           /\ Truthy(doc.new_payment_method)
           /\ BasePresent)
           => /\ ~Raised(last)
              /\ Val(last.ret).PromijenjeniNacinPlac =
                     Val(doc.new_payment_method)

C6_Witness ==
    /\ variant = "InvoicePaymentMethodChange" /\ Serialized /\ BasePresent
    /\ ~IsNone(doc.original_zki)
    /\ doc.payment_method = PaymentMethod_OTHER
    /\ doc.new_payment_method = Some(PaymentMethod_OTHER)
    /\ RaisedValueError
    /\ last.signed = <<>>

\* C7: InvoicePaymentMethodChange.to_ws_object fails unless original_zki
\* and new_payment_method are both set; when it succeeds ZastKod is the
\* supplied original_zki and not the code computed from the document.
C7_OriginalZkiEmitted ==
    (variant = "InvoicePaymentMethodChange" /\ Serialized)
    => /\ (IsNone(doc.original_zki) \/ IsNone(doc.new_payment_method))
           => RaisedValueError
       /\ ~Raised(last)
           => /\ Val(last.ret).ZastKod = Val(doc.original_zki)
              /\ Val(last.ret).ZastKod /= Val(calculate_zki(doc).ret)

C7_Witness ==
    /\ variant = "InvoicePaymentMethodChange" /\ Serialized
    /\ ~Raised(last)
    /\ Val(last.ret).ZastKod = "abcdabcdabcdabcdabcdabcdabcdabcd"
    /\ Val(last.ret).type = "RacunPNPType"
    /\ Len(last.signed) = 1

----------------------------------------------------------------------------
(* Claims about the plugin and the client, under SpecClient *)

Count(seq, e) == Cardinality({i \in DOMAIN seq : seq[i] = e})

Once(b) == IF b THEN 1 ELSE 0

\* C8: around every remote call the plugin asks the Signer to sign the
\* outbound envelope, once, exactly when the operation is not echo, and asks
\* the Verifier to verify the inbound envelope, once, exactly when the
\* operation is not echo; for echo neither is ever called, and neither is
\* called outside the two hooks.
C8_SignsAndVerifiesIffNotEcho ==
    LET t == client.trace
        signed == client.operation /= "echo"
    IN  /\ Count(t, "sign_document")
             = Once(signed /\ Count(t, "egress") = 1)
        /\ Count(t, "verify_document")
             = Once(signed /\ Count(t, "ingress") = 1)
        /\ client.operation = "echo" =>
             /\ Count(t, "sign_document") = 0
             /\ Count(t, "verify_document") = 0

C8_Witness ==
    /\ client.pc = "done"
    /\ client.method = "submit_invoice"
    /\ client.operation = "racuniPD"
    /\ client.trace
         = <<"to_ws_object", "create_request_header", "egress",
             "sign_document", "invoke", "ingress", "verify_document">>
    /\ client.outcome = Some(Return(ServiceJir, <<>>))

\* C9 (as stated): when verification of the inbound envelope of a signed
\* operation fails, the call of submit_invoice, check_invoice,
\* change_payment_method or submit_document ends right after ingress with
\* the SignatureError that names the envelope's element: no ResponseError,
\* no other exception, and no value returned, whether the envelope held a
\* response or a fault.
C9_SignatureErrorPropagates ==
    (/\ Count(client.trace, "verify_document") = 1
     /\ Val(client.inbound).signature /= "valid")
      => /\ client.pc = "done"
         /\ client.method \in ClientMethods \ {"test_service"}
         /\ client.outcome
              = Some([exc |-> Some(SignatureError(Val(client.inbound).tag)),
                      ret |-> None, signed |-> <<>>])

\* submit_invoice, answered by a response that carries a Jir in a Body
\* child that was never signed: the call ends with register_id's
\* xmlsec.Error and returns nothing
C9_Witness ==
    /\ client.pc = "done"
    /\ client.method = "submit_invoice"
    /\ Count(client.trace, "verify_document") = 1
    /\ Val(client.inbound).kind = "response"
    /\ Val(client.inbound).body.Jir = ServiceJir
    /\ Val(client.inbound).signature = "unsigned"
    /\ Val(Val(client.outcome).exc).type = "xmlsec.Error"
    /\ IsNone(Val(client.outcome).ret)

----------------------------------------------------------------------------
(* Claims about fault decoding, under SpecFault *)

\* The positions of the fault body whose code is not the sentinel
Kept == {i \in DOMAIN fault : fault[i].SifraGreske /= "v100"}

\* The k-th of them, in the order of the fault body
NthKept(k) ==
    CHOOSE i \in Kept : Cardinality({j \in Kept : j < i}) = k - 1

\* C10: decoding a fault body gives one structured error for each entry
\* whose code is not v100, in the order of the body, with the entry's
\* message and the catalog member of its code; a body of sentinel entries
\* only gives the empty list; a body of one s005 entry gives one error
\* whose string is "s005: " followed by the message.
C10_OneErrorPerNonSentinelEntry ==
    ~IsNone(decoded) =>
        LET errors == Val(decoded)
        IN  /\ Len(errors) = Cardinality(Kept)
            /\ \A k \in DOMAIN errors :
                 LET item == fault[NthKept(k)]
                 IN  /\ errors[k].message = item.PorukaGreske
                     /\ errors[k].code
                          = IF item.SifraGreske \in ResponseErrorEnum
                            THEN <<item.SifraGreske>> ELSE <<>>
            /\ (\A i \in DOMAIN fault : fault[i].SifraGreske = "v100")
                 => errors = <<>>
            /\ (Len(fault) = 1 /\ fault[1].SifraGreske = "s005")
                 => /\ Len(errors) = 1
                    /\ ResponseErrorDetail_str(errors[1])
                         = <<"s005: " \o fault[1].PorukaGreske>>

C10_Witness ==
    /\ Len(fault) = 3
    /\ fault[1].SifraGreske = "v114"
    /\ fault[2].SifraGreske = "v100"
    /\ fault[3] = [SifraGreske |-> "s005", PorukaGreske |-> "text"]
    /\ ~IsNone(decoded)
    /\ Len(Val(decoded)) = 2
    /\ Val(decoded)[1].code = <<"v114">>
    /\ ResponseErrorDetail_str(Val(decoded)[2]) = <<"s005: text">>

\* C11 (as stated): a fault entry whose code is outside the catalog is kept
\* in the decoded list, and every decoded detail and the ResponseError that
\* wraps them have a string form.
C11_UnknownCodeStringifies ==
    ~IsNone(rendered) =>
        /\ Len(Val(decoded)) = Cardinality(Kept)
        /\ \A k \in DOMAIN Val(rendered).details :
             ~IsNone(Val(rendered).details[k])
        /\ ~IsNone(Val(rendered).error)

\* An entry with a code outside the catalog is kept, with no code, and
\* neither it nor the ResponseError has a string form
C11_Witness ==
    /\ fault = <<[SifraGreske |-> "x999", PorukaGreske |-> "text"]>>
    /\ ~IsNone(rendered)
    /\ Val(decoded) = <<[code |-> <<>>, message |-> "text"]>>
    /\ IsNone(Val(rendered).details[1])
    /\ IsNone(Val(rendered).error)

----------------------------------------------------------------------------
(* Claims about fault handling in the client, under SpecClient *)

\* The call went through _call_service and the service call raised a Fault
FaultRaised ==
    /\ client.pc = "done"
    /\ client.method \in ClientMethods \ {"test_service"}
    /\ Count(client.trace, "ingress") = 1
    /\ Val(client.inbound).kind = "fault"
    /\ Val(client.inbound).signature = "valid"

\* C12 (as stated): when the service call raises a Fault, the call ends
\* with a ResponseError, whose details are the decoded list for a
\* well-formed payload and the empty list for an unparsable, empty or
\* absent detail and for a payload with no Body child; no other exception
\* reaches the caller.
C12_FaultAlwaysResponseError ==
    FaultRaised =>
        LET detail == Val(client.inbound).detail
            exc == Val(client.outcome).exc
        IN  /\ ~IsNone(exc)
            /\ Val(exc).type = "ResponseError"
            /\ Val(exc).details
                 = IF detail.kind = "errors"
                   THEN parse_response(detail.Greska) ELSE <<>>

\* A Fault without detail ends the call with the parser's ValueError
C12_Witness ==
    /\ FaultRaised
    /\ client.method = "submit_invoice"
    /\ Val(client.inbound).detail.kind = "absent"
    /\ Val(Val(client.outcome).exc).type = "ValueError"

----------------------------------------------------------------------------
(* Claims about signing and verification, under SpecSig *)

\* The latest operation was a verification of the envelope as it is now
Verified == ~IsNone(verified) /\ Val(verified).op = "verify_document"

\* The envelope carries a signature
Signed == ~IsNone(sig_node(Val(xml)))

\* Neither the content nor the DigestValue differs from what was signed
Intact ==
    LET node == Val(Val(xml).body)
        signed == Val(node.Signature).SignatureValue
    IN  /\ DigestOf(node.content) = signed.DigestValue
        /\ Val(node.Signature).DigestValue = signed.DigestValue

\* C13: a signed envelope, unchanged since, verifies with the certificate
\* of the signing key; with another certificate verification raises
\* SignatureError; with its content or its digest changed after signing
\* verification raises SignatureError.
C13_SignThenVerify ==
    (Verified /\ Signed) =>
        LET sigerr == Some(SignatureError(Val(Val(xml).body).tag))
            key == Val(sig_node(Val(xml))).SignatureValue.key
            v == Val(verified)
        IN  /\ (Intact /\ v.with = key) => IsNone(v.exc)
            /\ v.with /= key => v.exc = sigerr
            /\ ~Intact => v.exc = sigerr

C13_Witness ==
    /\ Verified
    /\ Signed
    /\ Val(sig_node(Val(xml))).SignatureValue.key = "client"
    /\ Val(verified).with = "client"
    /\ ~Intact
    /\ DigestOf(Val(Val(xml).body).content)
         = Val(sig_node(Val(xml))).DigestValue
    /\ Val(Val(verified).exc).type = "SignatureError"

\* The envelope is validly signed for the certificate
ValidlySigned(cert) ==
    /\ Signed
    /\ Intact
    /\ Val(sig_node(Val(xml))).SignatureValue.key = cert

\* C14 (as stated): for every envelope that is not validly signed, one
\* without signature and one without a request element in its Body
\* included, verification raises a SignatureError that names the request
\* element's tag, and nothing else.
C14_AlwaysSignatureError ==
    (Verified /\ ~ValidlySigned(Val(verified).with)) =>
        /\ ~IsNone(Val(verified).exc)
        /\ Val(Val(verified).exc).type = "SignatureError"

\* An envelope with an empty Body ends verification with a TypeError
C14_Witness ==
    /\ Verified
    /\ IsNone(Val(xml).body)
    /\ Val(Val(verified).exc).type = "TypeError"

----------------------------------------------------------------------------
(* Claims about OIB, under SpecOib *)

\* The recurrence of the claim over the first k digits of cs
RECURSIVE C15_Acc(_, _)
C15_Acc(cs, k) ==
    IF k = 0 THEN 10
    ELSE LET sum == (DigitVal(cs[k]) + C15_Acc(cs, k - 1)) % 10
         IN  ((IF sum = 0 THEN 10 ELSE sum) * 2) % 11

ElevenAsciiDigits(cs) ==
    /\ Len(cs) = 11
    /\ \A i \in 1..11 : cs[i] \in {"0", "1", "2", "3", "4", "5", "6", "7",
                                   "8", "9"}

\* C15 (as stated): OIB(text) succeeds exactly when text is eleven ASCII
\* digits whose last digit is (11 - acc) mod 10 for the acc of the
\* recurrence over the first ten; any other text raises a ValueError, the
\* format error when it is not eleven digits and the checksum error
\* otherwise.
C15_AcceptsIffElevenAsciiDigitsAndChecksum ==
    ~IsNone(output) =>
        LET cs == Val(input)
            r == Val(output)
        IN  IF ElevenAsciiDigits(cs)
            THEN IF DigitVal(cs[11]) = (11 - C15_Acc(cs, 10)) % 10
                 THEN r = Return(Join(cs), <<>>)
                 ELSE /\ Raised(r)
                      /\ Val(r.exc).type = "ValueError"
                      /\ Val(r.exc).msg /= "OIB must have exactly 11 digits"
            ELSE r = Raise("OIB must have exactly 11 digits", <<>>)

\* A text whose last character is a decimal digit outside ASCII is accepted
C15_Witness ==
    /\ input = Some(<<"1", "2">> \o OibMiddle \o <<"U+0666">>)
    /\ ~IsNone(output)
    /\ ~Raised(Val(output))

----------------------------------------------------------------------------
(* Claims about InvoiceNumber, under SpecNumber *)

\* The splits of cs in three non-empty segments around two slashes:
\* decimal digits, ASCII letters and digits, decimal digits
C16_Splits(cs) ==
    {p \in (1..Len(cs)) \X (1..Len(cs)) :
        /\ 1 < p[1] /\ p[1] + 1 < p[2] /\ p[2] < Len(cs)
        /\ cs[p[1]] = "/" /\ cs[p[2]] = "/"
        /\ \A k \in 1..(p[1] - 1) : cs[k] \in DecimalChars
        /\ \A k \in (p[1] + 1)..(p[2] - 1) :
             cs[k] \in DigitChars \cup LetterChars
        /\ \A k \in (p[2] + 1)..Len(cs) : cs[k] \in DecimalChars}

\* C16: InvoiceNumber(text) succeeds exactly when the whole text is
\* digits, a slash, ASCII letters and digits, a slash, digits, each segment
\* non-empty (digits being what \d matches and int() reads); then
\* sequence_number and device_number are the integer values of the first
\* and third segment and location_code is the second segment; any other
\* text raises ValueError.
C16_AcceptsIffThreeSegments ==
    ~IsNone(output) =>
        LET cs == Val(input)
            made == Val(output).made
        IN  /\ ~IsNone(made) <=> C16_Splits(cs) /= {}
            /\ \A p \in C16_Splits(cs) :
                 /\ Val(made).sequence_number
                      = StrToInt(SubSeq(cs, 1, p[1] - 1))
                 /\ Val(made).location_code
                      = Join(SubSeq(cs, p[1] + 1, p[2] - 1))
                 /\ Val(made).device_number
                      = StrToInt(SubSeq(cs, p[2] + 1, Len(cs)))

C16_Witness ==
    /\ input = Some(<<"1", "0", "0", "1", "/", "V", "P", "1", "/", "9">>)
    /\ ~IsNone(output)
    /\ Val(Val(output).made).sequence_number = 1001
    /\ Val(Val(output).made).location_code = "VP1"
    /\ Val(Val(output).made).device_number = 9

\* C17: constructing an InvoiceNumber from the string form of a valid one
\* gives an equal one, and the string form of a constructed InvoiceNumber
\* is the text it was constructed from.
C17_RoundTrip ==
    (~IsNone(output) /\ ~IsNone(Val(output).made)) =>
        /\ InvoiceNumber_text(Val(Val(output).made)) = Val(input)
        /\ ~IsNone(Val(output).again) =>
             /\ Val(Val(output).again) = Val(output).made
             /\ InvoiceNumber_text(Val(Val(Val(output).again))) = Val(input)

C17_Witness ==
    /\ input = Some(<<"0", "1", "/", "V", "P", "1", "/", "0", "0", "7">>)
    /\ ~IsNone(output)
    /\ ~IsNone(Val(output).again)
    /\ Val(Val(Val(output).again)).sequence_number = 1
    /\ Val(Val(Val(output).again)).device_number = 7
    /\ InvoiceNumber_str(Val(Val(Val(output).again))) = "01/VP1/007"

----------------------------------------------------------------------------
(* Claims about TaxItem, under SpecTax *)

\* c hundredths is x / 10000 rounded to two decimals: nearer than half a
\* hundredth, or exactly half a hundredth away and even
C18_Rounds(x, c) ==
    \/ 2 * Abs(x - 10000 * c) < 10000
    \/ 2 * Abs(x - 10000 * c) = 10000 /\ c % 2 = 0

\* C18: with base, rate and amount normalized to two decimals, TaxItem
\* succeeds exactly when amount is base * rate / 100 rounded to two
\* decimals and raises ValueError otherwise; (100, 20, 30) fails and
\* (100, 25, 25) succeeds; constructing again from an accepted item's
\* stored base, rate and amount succeeds and gives an equal item.
C18_AmountIsRoundedProduct ==
    ~IsNone(output) =>
        LET b == to_decimal2(Val(input)[1])
            r == to_decimal2(Val(input)[2])
            a == to_decimal2(Val(input)[3])
            made == Val(output).made
        IN  /\ IF C18_Rounds(Hundredths(b) * Hundredths(r), Hundredths(a))
               THEN made.ret = <<[base |-> b, rate |-> r, amount |-> a]>>
               ELSE Raised(made) /\ Val(made.exc).type = "ValueError"
            /\ Val(input) = <<1000000, 200000, 300000>> => Raised(made)
            /\ Val(input) = <<1000000, 250000, 250000>> => ~Raised(made)
            /\ ~IsNone(Val(output).again) => Val(Val(output).again) = made

\* 0.50 at 25% is 0.125, stored as 0.12, and constructs again as itself
C18_Witness ==
    /\ input = Some(<<5000, 250000, 1200>>)
    /\ ~IsNone(output)
    /\ ~IsNone(Val(output).again)
    /\ Val(Val(Val(output).again).ret)
         = [base |-> Decimal2(0, 50), rate |-> Decimal2(0, 2500),
            amount |-> Decimal2(0, 12)]


\* The value a successful assignment to a property makes readable
C19_Normalized(f, value) ==
    CASE f \in {"oib", "operator_oib"} -> OIB(value)
      [] f = "invoice_number" -> InvoiceNumber(value)
      [] f = "document_zki" -> ZKI(value)
      [] f \in {"total", "vat_exempt", "special_margin_taxation",
                "tax_exempt_total"} -> Some(to_decimal2(value))
      [] f \in {"issued_at", "is_late_registration", "is_vat_registered",
                "sequence_scope", "payment_method"} -> value
      [] OTHER -> Some(value)

\* What the latest successful assignment to oib makes of the document's oib
C19_CurrentOib ==
    IF last.seen["oib"].good = "set"
    THEN OIB(Val(last.seen["oib"].value)) ELSE None

\* The documented default of a property: what reading it returns when unset
C19_Default(f) ==
    CASE f \in {"is_late_registration", "is_vat_registered"} -> FALSE
      [] f = "sequence_scope" -> SequenceScope_LOCATION
      [] f = "payment_method" -> PaymentMethod_OTHER
      [] f = "issued_at" -> last.seen[f].at
      [] f = "operator_oib" -> C19_CurrentOib
      [] OTHER -> None

\* The attribute behind an unset property
C19_StoredDefault(f) == IF f = "operator_oib" THEN None ELSE C19_Default(f)

\* C19 as stated: every property reads as the normalized value of its
\* latest assignment when the latest operation on it was a successful
\* assignment, and as its documented default otherwise (so also after an
\* assignment that raised); operations on other properties do not matter.
C19_LatestOperationDecides ==
    \A f \in DOMAIN last.seen :
        fget(f, doc) =
            IF last.seen[f].latest = "set"
            THEN C19_Normalized(f, Val(last.seen[f].value))
            ELSE C19_Default(f)

\* C19, amended: every property reads as the normalized value of its latest
\* successful assignment unless a reset followed it, and as its documented
\* default when it was never successfully assigned or was reset since; an
\* assignment that raises leaves the property as it was; the attribute
\* behind each property is decided by the operations on that property alone.
C19_LatestSuccessfulOperationDecides ==
    \A f \in DOMAIN last.seen :
        /\ fget(f, doc) =
               IF last.seen[f].good = "set"
               THEN C19_Normalized(f, Val(last.seen[f].value))
               ELSE C19_Default(f)
        /\ doc[Attr(f)] =
               IF last.seen[f].good = "set"
               THEN C19_Normalized(f, Val(last.seen[f].value))
               ELSE C19_StoredDefault(f)

\* An assignment to oib has just raised after an earlier one went through,
\* and the earlier value is still read
C19_Witness ==
    /\ last.op = "set"
    /\ last.field = "oib"
    /\ ~IsNone(last.exc)
    /\ last.seen["oib"].latest = "failed"
    /\ last.seen["oib"].good = "set"
    /\ ~IsNone(fget("oib", doc))
    /\ fget("oib", doc) = OIB(Val(last.seen["oib"].value))

\* C20: while operator_oib is unset (never assigned, or reset) reading it
\* returns the document's current oib, whatever was done to oib since; once
\* assigned it returns the assigned value whatever oib is; and a
\* serialization that succeeds carries that same value as OibOper.
C20_OperatorOibDefaultsToOib ==
    variant \in InvoiceVariants =>
        LET s == last.seen["operator_oib"]
            expected == IF s.good = "set" THEN OIB(Val(s.value))
                        ELSE C19_CurrentOib
        IN  /\ fget("operator_oib", doc) = expected
            /\ (last.op = "to_ws_object" /\ IsNone(last.exc))
                   => Val(last.ret).OibOper = expected

\* A document built with an operator_oib, the operator_oib then reset and
\* oib assigned anew, serializes with the new oib as OibOper
C20_Witness ==
    /\ variant \in InvoiceVariants
    /\ last.op = "to_ws_object"
    /\ IsNone(last.exc)
    /\ last.seen["operator_oib"].good = "del"
    /\ last.seen["oib"].good = "set"
    /\ last.n = MaxFieldOps
    /\ Val(last.ret).OibOper = Some("12345678903")


C21_Lists == {"vat", "consumption_tax", "fees"} \cap DOMAIN last.seen

\* What the assignments and resets so far leave in a list property
C21_Kept(f) ==
    IF last.seen[f].good = "set" THEN last.seen[f].value ELSE None

\* C21: each of vat, consumption_tax and fees is absent or a non-empty
\* list; assigning an empty list raises ValueError and leaves the value of
\* the earlier operations in place, any other list is taken as given; and a
\* serialization that succeeds carries Pdv, Pnp and Naknade exactly for the
\* lists that are present, entry for entry in the order assigned.
C21_ListsAbsentOrNonEmpty ==
    /\ \A f \in C21_Lists :
         /\ IsNone(fget(f, doc)) \/ Len(Val(fget(f, doc))) > 0
         /\ fget(f, doc) = C21_Kept(f)
         /\ (last.op = "set" /\ last.field = f)
                => IF Val(last.arg) = <<>>
                   THEN /\ ~IsNone(last.exc)
                        /\ Val(last.exc).type = "ValueError"
                        /\ last.seen[f].latest = "failed"
                   ELSE /\ IsNone(last.exc)
                        /\ fget(f, doc) = last.arg
    /\ (variant \in InvoiceVariants /\ last.op = "to_ws_object"
            /\ IsNone(last.exc))
           => LET o == Val(last.ret)
                  tax(group, f) ==
                      IF IsNone(C21_Kept(f)) THEN IsNone(group)
                      ELSE LET items == Val(C21_Kept(f))
                               out == Val(group).Porez
                           IN  /\ ~IsNone(group)
                               /\ Len(out) = Len(items)
                               /\ \A i \in 1..Len(items) :
                                    /\ out[i].Stopa = items[i].rate
                                    /\ out[i].Osnovica = items[i].base
                                    /\ out[i].Iznos = items[i].amount
              IN  /\ tax(o.Pdv, "vat")
                  /\ tax(o.Pnp, "consumption_tax")
                  /\ IF IsNone(C21_Kept("fees")) THEN IsNone(o.Naknade)
                     ELSE LET items == Val(C21_Kept("fees"))
                              out == Val(o.Naknade)
                          IN  /\ Len(out) = Len(items)
                              /\ \A i \in 1..Len(items) :
                                   /\ out[i].NazivN = items[i].name
                                   /\ out[i].IznosN = items[i].amount

\* A two-entry vat list was assigned, an empty list was then refused, and
\* the serialization carries the two entries in the order assigned
C21_Witness ==
    /\ variant \in InvoiceVariants
    /\ last.op = "to_ws_object"
    /\ IsNone(last.exc)
    /\ last.seen["vat"].latest = "failed"
    /\ last.seen["vat"].good = "set"
    /\ Len(Val(fget("vat", doc))) = 2
    /\ Len(Val(Val(last.ret).Pdv).Porez) = 2
    /\ Val(Val(last.ret).Pdv).Porez[1].Stopa = Val(fget("vat", doc))[1].rate
    /\ Val(Val(last.ret).Pdv).Porez[1].Stopa
           /= Val(Val(last.ret).Pdv).Porez[2].Stopa
    /\ IsNone(Val(last.ret).Naknade)


QrLinked == last.op = "get_qr_link" /\ IsNone(last.exc)

\* The integers that are a number of hundredths times 123, the fraction
\* dropped: the one integer between zero and the product that is less than
\* one away from it
C22_Truncated(total, z) ==
    /\ 100 * Abs(z) <= 123 * Abs(total)
    /\ 123 * Abs(total) < 100 * (Abs(z) + 1)
    /\ (z > 0 => total > 0) /\ (z < 0 => total < 0)

\* C22: in every link izn is the decimal text of the total times 123 with
\* the fraction dropped, and datv is the issue timestamp as YYYYMMDD_HHMM.
C22_IznIsTotalTimes123 ==
    QrLinked =>
        /\ \E z \in -200000..200000 :
             /\ C22_Truncated(Hundredths(Val(doc.total)), z)
             /\ Val(last.ret).izn = Some(IntToStr(z))
        /\ Val(last.ret).datv =
               Some(IntToStr(doc.issued_at.year * 10000
                               + doc.issued_at.month * 100
                               + doc.issued_at.day)
                      \o "_" \o Pad2(doc.issued_at.hour)
                      \o Pad2(doc.issued_at.minute))

\* A link for a negative total whose product with 123 is not whole
C22_Witness ==
    /\ QrLinked
    /\ Val(doc.total) = Decimal2(1, 5)
    /\ Val(last.ret).izn = Some("-6")
    /\ Val(last.ret).datv = Some("20211231_2359")

\* C23: in every link izn is the total in hundredths.
C23_IznIsTotalInHundredths ==
    QrLinked => Val(last.ret).izn = Some(IntToStr(Hundredths(Val(doc.total))))

\* A link for the total 123.45 of the repository's test
C23_Witness ==
    /\ QrLinked
    /\ Val(doc.total) = Decimal2(0, 12345)
    /\ Val(last.ret).izn = Some("15184")

QrSupplied == ~IsNone(last.arg) /\ Val(last.arg) /= <<>>

\* C24: a call with oib, invoice_number or total unset raises ValueError
\* and gives no link; every other call gives a link with exactly one of zki
\* and jir: jir, as supplied, when a confirmation id is supplied, and
\* otherwise zki, the code calculate_zki computes.
C24_ExactlyOneOfZkiAndJir ==
    last.op = "get_qr_link" =>
        IF IsNone(doc.oib) \/ IsNone(doc.invoice_number) \/ IsNone(doc.total)
        THEN /\ ~IsNone(last.exc)
             /\ Val(last.exc).type = "ValueError"
             /\ IsNone(last.ret)
        ELSE /\ IsNone(last.exc)
             /\ IF QrSupplied
                THEN /\ Val(last.ret).jir = Some(Join(Val(last.arg)))
                     /\ IsNone(Val(last.ret).zki)
                ELSE /\ Val(last.ret).zki = calculate_zki(doc).ret
                     /\ IsNone(Val(last.ret).jir)

\* A link with the confirmation id of the repository's test
C24_Witness ==
    /\ QrLinked
    /\ QrSupplied
    /\ Val(last.ret).jir = Some("fakejir")
    /\ Val(last.ret).link =
           "https://porezna.gov.hr/rn?izn=12300&datv=20220801_1530&jir=fakejir"


DocumentMethods == ClientMethods \ {"test_service"}

\* C25: in submit_invoice, check_invoice, change_payment_method and
\* submit_document the remote operation is invoked only after the document
\* was serialized, and a serialization that raises (a required field unset,
\* or the variant's own rule broken) ends the call with that error before
\* the plugin or the transport is reached.
C25_SerializedBeforeInvoked ==
    client.method \in DocumentMethods =>
        LET t == client.trace
            body == to_ws_object(variant, doc)
        IN  /\ \A i \in DOMAIN t :
                 t[i] \in {"egress", "invoke"} =>
                     /\ \E j \in 1..(i - 1) : t[j] = "to_ws_object"
                     /\ ~Raised(body)
            /\ (Count(t, "to_ws_object") > 0 /\ Raised(body)) =>
                 /\ client.pc = "done"
                 /\ Count(t, "egress") = 0
                 /\ Count(t, "invoke") = 0
                 /\ Val(client.outcome).exc = body.exc

\* change_payment_method on a document whose new payment method is the
\* current one ends with the serialization's error and nothing sent
C25_Witness ==
    /\ client.pc = "done"
    /\ client.method = "change_payment_method"
    /\ Count(client.trace, "to_ws_object") = 1
    /\ Count(client.trace, "invoke") = 0
    /\ Val(Val(client.outcome).exc).msg
         = "New payment method can't be the same as current"

\* C26 as stated: every call of the four methods serializes the document
\* exactly once; it invokes the operation at most once, and exactly once
\* when the serialization succeeds; a fault or a failed connection ends the
\* call with an error and no second invocation.
C26_SerializedOnceInvokedAtMostOnce ==
    client.method \in DocumentMethods =>
        LET t == client.trace
        IN  /\ Count(t, "to_ws_object") <= 1
            /\ Count(t, "invoke") <= 1
            /\ client.pc = "done" =>
                 /\ Count(t, "to_ws_object") = 1
                 /\ ~Raised(to_ws_object(variant, doc))
                        => Count(t, "invoke") = 1
                 /\ (Count(t, "invoke") = 1
                       /\ (IsNone(client.inbound)
                             \/ Val(client.inbound).kind = "fault"))
                        => Raised(Val(client.outcome))

\* C26, amended: a call of check_invoice outside demo mode raises before it
\* serializes or invokes anything; every other call of the four methods
\* serializes the document exactly once; it invokes the operation at most
\* once, and exactly once when the serialization succeeds; a fault or a
\* failed connection ends the call with an error and no second invocation.
C26_SerializedOnceUnlessNotDemo ==
    client.method \in DocumentMethods =>
        LET t == client.trace
            refused == client.method = "check_invoice" /\ ~client.demo
        IN  /\ Count(t, "to_ws_object") <= 1
            /\ Count(t, "invoke") <= 1
            /\ client.pc = "done" =>
                 /\ Count(t, "to_ws_object") = Once(~refused)
                 /\ refused =>
                        /\ Count(t, "invoke") = 0
                        /\ Val(Val(client.outcome).exc).type = "RuntimeError"
                 /\ (~refused /\ ~Raised(to_ws_object(variant, doc)))
                        => Count(t, "invoke") = 1
                 /\ (Count(t, "invoke") = 1
                       /\ (IsNone(client.inbound)
                             \/ Val(client.inbound).kind = "fault"))
                        => Raised(Val(client.outcome))

\* submit_document ended by a fault of the service after one serialization
\* and one invocation
C26_Witness ==
    /\ client.pc = "done"
    /\ client.method = "submit_document"
    /\ Count(client.trace, "to_ws_object") = 1
    /\ Count(client.trace, "invoke") = 1
    /\ ~IsNone(client.inbound)
    /\ Val(client.inbound).kind = "fault"
    /\ Val(Val(client.outcome).exc).type = "ResponseError"


\* What the call of thread t gives when no other call runs: the outcome
\* and the envelope or payload as the call leaves it
C27_Alone(t) ==
    LET arg == threads[t].arg
    IN  CASE threads[t].op = "sign_document" ->
               LET r == sign_document(arg, ThreadCrypto.signer.xmlsec_key)
               IN  IF Raised(r) THEN [outcome |-> Some(r), root |-> arg]
                   ELSE [outcome |-> Some(Return("None", <<>>)),
                         root |-> Val(r.ret)]
          [] threads[t].op = "verify_document" ->
               [outcome |-> Some(verify_document(arg, ThreadCrypto.verifier.key)),
                root |-> arg]
          [] threads[t].op = "sign_zki_payload" ->
               [outcome |-> Some(Return(sign_zki_payload(arg), <<>>)),
                root |-> arg]

\* C27: sign_document, sign_zki_payload and verify_document never change
\* the attributes of their Signer or Verifier, and however the statements
\* of concurrent calls on the same instances interleave, each call ends
\* with the outcome and the envelope it has when it runs alone.
C27_CallsLeaveInstanceUnchanged ==
    /\ crypto = ThreadCrypto
    /\ \A t \in ThreadIds :
         threads[t].pc = "done" =>
             /\ threads[t].outcome = C27_Alone(t).outcome
             /\ threads[t].root = C27_Alone(t).root

\* Two calls that ran between each other's statements: one signed its
\* envelope, the other rejected an envelope that was changed after signing
C27_Witness ==
    /\ threads[1].op = "sign_document"
    /\ threads[2].op = "verify_document"
    /\ threads[1].pc = "done"
    /\ threads[2].pc = "done"
    /\ threads[1].overlapped
    /\ threads[2].overlapped
    /\ threads[1].outcome = Some(Return("None", <<>>))
    /\ ~IsNone(Val(threads[2].outcome).exc)
    /\ Val(Val(threads[2].outcome).exc).type = "SignatureError"


C28_LowerHex ==
    {"0", "1", "2", "3", "4", "5", "6", "7", "8", "9",
     "a", "b", "c", "d", "e", "f"}

C28_WellFormed(cs) == Len(cs) = 32 /\ \A i \in 1..Len(cs) : cs[i] \in C28_LowerHex

\* C28: two calls of sign_zki_payload by one Signer with one payload
\* return the same text, whatever random bytes the system has for each
\* call; every text returned is 32 characters from 0-9a-f, and ZKI(...)
\* takes it; ZKI(text) raises ValueError for every text that is not 32
\* characters from 0-9a-f and holds every text that is.
C28_DigestIsAZki ==
    ~IsNone(output) =>
        IF "data" \in DOMAIN Val(input)
        THEN LET calls == Val(output).calls
             IN  /\ \A i, j \in DOMAIN calls : calls[i].text = calls[j].text
                 /\ \A i \in DOMAIN calls :
                        /\ C28_WellFormed(calls[i].text)
                        /\ calls[i].zki = Some(Join(calls[i].text))
        ELSE IF C28_WellFormed(Val(input).text)
        THEN /\ ~Raised(Val(output))
             /\ Val(output).ret = Some(Join(Val(input).text))
        ELSE /\ Raised(Val(output))
             /\ Val(Val(output).exc).type = "ValueError"

\* Two calls with one payload, for which the system had different random
\* bytes, returned one text; it has digits above 9 and was taken as a ZKI
C28_Witness ==
    /\ ~IsNone(output)
    /\ "data" \in DOMAIN Val(input)
    /\ Len(Val(output).calls) = 2
    /\ Val(output).calls[1].rnd /= Val(output).calls[2].rnd
    /\ Val(output).calls[1].text = Val(output).calls[2].text
    /\ \E i \in 1..32 :
           Val(output).calls[2].text[i] \in {"a", "b", "c", "d", "e", "f"}
    /\ ~IsNone(Val(output).calls[2].zki)

\* 32 hexadecimal digits with one capital letter were refused
C28_WitnessRefused ==
    /\ ~IsNone(output)
    /\ "text" \in DOMAIN Val(input)
    /\ Len(Val(input).text) = 32
    /\ Val(input).text[16] = "F"
    /\ Raised(Val(output))


\* The instant, as the payload writes it and as the wire field writes it
C29_InPayload(dt) ==
    Pad2(dt.day) \o "." \o Pad2(dt.month) \o "." \o IntToStr(dt.year) \o " "
        \o Pad2(dt.hour) \o ":" \o Pad2(dt.minute) \o ":" \o Pad2(dt.second)

C29_OnWire(dt) ==
    Pad2(dt.day) \o "." \o Pad2(dt.month) \o "." \o IntToStr(dt.year) \o "T"
        \o Pad2(dt.hour) \o ":" \o Pad2(dt.minute) \o ":" \o Pad2(dt.second)

C29_Payload(d, dt) ==
    Val(d.oib) \o C29_InPayload(dt)
        \o IntToStr(Val(d.invoice_number).sequence_number)
        \o Val(d.invoice_number).location_code
        \o IntToStr(Val(d.invoice_number).device_number)
        \o DecimalStr(Val(d.total))

\* C29: a serialization signs a payload with, and emits a DatVrijeme of, one
\* instant: the value last assigned to issued_at, or the time of the
\* construction or reset that last fixed it, never the time of the read;
\* a read returns that instant, and a read or serialization repeated with
\* no assignment or reset in between gives what the one before it gave.
C29_OneInstant ==
    /\ (last.op = "to_ws_object" /\ IsNone(last.exc)) =>
           /\ last.signed = <<C29_Payload(doc, last.fixed)>>
           /\ Val(last.ret).DatVrijeme = C29_OnWire(last.fixed)
           /\ ~IsNone(last.serialized) =>
                  /\ Val(last.serialized).ret = Val(last.ret)
                  /\ Val(last.serialized).signed = last.signed
    /\ last.op = "get" =>
           /\ last.ret = Some(last.fixed)
           /\ ~IsNone(last.read) => last.read = last.ret
    /\ last.fixed_by \in {"new", "del"} =>
           last.fixed = StampClock(last.fixed_at)

\* A second serialization, two ticks after the reset that fixed the
\* timestamp, emitted the time of the reset
C29_Witness ==
    /\ last.op = "to_ws_object"
    /\ IsNone(last.exc)
    /\ last.fixed_by = "del"
    /\ last.at >= last.fixed_at + 2
    /\ ~IsNone(last.serialized)
    /\ Val(last.ret).DatVrijeme = "01.01.2022T00:00:0" \o IntToStr(last.fixed_at)


C30_Triple(n) == <<n.sequence_number, n.location_code, n.device_number>>

\* What a number puts in the payload (all else equal) and in BrRac
C30_Contribution(n) ==
    [payload |-> ZKI_payload("12312312316", datetime(2022, 1, 1, 0, 0, 0),
                             n, Decimal2(0, 10000)),
     BrRac |-> [BrOznRac |-> n.sequence_number, OznPosPr |-> n.location_code,
                OznNapUr |-> n.device_number]]

C30_Compared ==
    /\ ~IsNone(output)
    /\ Val(input).other.cls = "InvoiceNumber"

\* C30: two InvoiceNumber values compare equal exactly when their
\* (sequence_number, location_code, device_number) triples are equal, so
\* two that compare unequal differ in what they put in the payload or in
\* BrRac.
C30_EqualIffSameTriple ==
    C30_Compared =>
        /\ Val(output).eq <=>
               C30_Triple(Val(input).self)
                   = C30_Triple(Val(input).other.value)
        /\ ~Val(output).eq =>
               C30_Contribution(Val(input).self)
                   /= C30_Contribution(Val(input).other.value)

\* What does hold: numbers that compare equal have equal triples, and
\* numbers compare equal exactly when their texts are the same
C30_EqualIffSameText ==
    C30_Compared =>
        /\ Val(output).eq <=>
               Val(input).self.invoice_number
                   = Val(input).other.value.invoice_number
        /\ Val(output).eq =>
               C30_Triple(Val(input).self)
                   = C30_Triple(Val(input).other.value)

\* 01/X/1 and 1/X/1 compared unequal and contribute the same payload and
\* the same BrRac
C30_Witness ==
    /\ C30_Compared
    /\ Val(input).self.invoice_number = <<"0", "1", "/", "X", "/", "1">>
    /\ Val(input).other.value.invoice_number = <<"1", "/", "X", "/", "1">>
    /\ ~Val(output).eq
    /\ C30_Contribution(Val(input).self)
           = C30_Contribution(Val(input).other.value)

====
